---- MODULE Spec2Model ----
(***************************************************************************)
(* State-machine model of the HIP adapter's command-buffer implementation  *)
(* (source/adapters/hip/command_buffer.cpp): the command-buffer object     *)
(* with its native graph, sync-point registry and two reference counts,    *)
(* the command handles of kernel launches, the append operations, finalize,*)
(* update-kernel-launch and enqueue.                                       *)
(***************************************************************************)
EXTENDS Integers, Sequences, FiniteSets, TLC

VARIABLES
    cb,        \* command buffers: [Bufs -> ur_exp_command_buffer_handle_t_]
    cmds,      \* heap of command handles, in allocation order
    kernel,    \* the kernel object used by kernel launches
    last,      \* the last API call: operation, inputs, returned values
    issued,    \* per buffer: the sync points handed back to callers, in call order
    noWait,    \* per buffer: no append so far passed a wait-list
    inflight,  \* per buffer: graph launches submitted and not yet completed
    launches,  \* per buffer: the kernel-node parameters each graph launch ran with
    calls,     \* per buffer: numbers of Retain, Release, Update and accepted append calls
    thr        \* threads inside a Release call: their positions, and what was deleted

vars == <<cb, cmds, kernel, last, issued, noWait, inflight, launches, calls, thr>>

(***************************************************************************)
(* Bounds of the model.                                                    *)
(***************************************************************************)
MaxAppends == 2     \* append calls that add nodes: per buffer, and one more over all buffers
MaxRetain  == 2     \* Retain calls on one buffer; external references on one command
MaxEnqueue == 2     \* graph launches recorded per buffer
MaxUpdates == 2      \* update-kernel-launch calls per buffer
MaxFinalize == 1    \* successful Finalize calls per buffer

Bufs == {1, 2}

NULL == <<>>        \* a null pointer passed for an array or list parameter

(***************************************************************************)
(* Small arithmetic helpers.                                               *)
(***************************************************************************)
CeilDiv(a, b) == (a + b - 1) \div b

Zero3 == <<0, 0, 0>>

\* An array of 3 entries holding the first wd entries of a and zero beyond
\* (memcpy of wd entries followed by memset of the rest).
CopyAndZero(a, wd) == [i \in 1..3 |-> IF i <= wd THEN a[i] ELSE 0]

(***************************************************************************)
(* Objects.                                                                *)
(***************************************************************************)
NoGraphExec == [live |-> FALSE, nodes |-> <<>>]

NoBuffer ==
    [st |-> "none", IsUpdatable |-> FALSE, HIPGraph |-> <<>>,
     HIPGraphExec |-> NoGraphExec, SyncPoints |-> <<>>, NextSyncPoint |-> 0,
     CommandHandles |-> <<>>, RefCountInternal |-> 0, RefCountExternal |-> 0,
     execsCreated |-> 0, execsDestroyed |-> 0]

\* ur_exp_command_buffer_handle_t_ constructor.
NewCommandBuffer(isUpdatable) ==
    [NoBuffer EXCEPT !.st = "alive", !.IsUpdatable = isUpdatable,
                     !.RefCountInternal = 1, !.RefCountExternal = 1]

\* The references a command-buffer object holds on its context and on its
\* device: the constructor retains both, the destructor releases both.
ContextRefs(B) == IF B.st \in {"alive", "leaked"} THEN 1 ELSE 0

DeviceRefs(B) == IF B.st \in {"alive", "leaked"} THEN 1 ELSE 0

NoCall ==
    [op |-> "none", b |-> 0, rc |-> "SUCCESS", sp |-> -1, cmd |-> 0,
     wl |-> [n |-> 0, l |-> NULL], flags |-> {}, steps |-> <<>>, event |-> FALSE,
     fill |-> [patNull |-> FALSE, P |-> 0, offset |-> 0, size |-> 0],
     copy |-> [srcOffset |-> 0, dstOffset |-> 0, size |-> 0],
     u |-> [ptrArgs |-> <<>>, memArgs |-> <<>>, valArgs |-> <<>>,
            newWorkDim |-> 0, pOff |-> NULL, pSize |-> NULL, pLocal |-> NULL]]

\* The threads of the model, each outside any call; nothing deleted, no
\* force-release done, no object used after its delete.
NumThreads == 2

ThreadIds == 1..NumThreads

Idle == [op |-> "none", pc |-> "idle", b |-> 0, c |-> 0, i |-> 0, d |-> 0]

NoThreads ==
    [at |-> [t \in ThreadIds |-> Idle], deletedBufs |-> <<>>, deletedCmds |-> <<>>,
     forced |-> <<>>, uaf |-> FALSE]

Init ==
    /\ cb = [b \in Bufs |-> NoBuffer]
    /\ cmds = <<>>
    /\ kernel = [localSize |-> 0, args |-> <<0, 0>>]
    /\ last = NoCall
    /\ issued = [b \in Bufs |-> <<>>]
    /\ noWait = [b \in Bufs |-> TRUE]
    /\ inflight = [b \in Bufs |-> 0]
    /\ launches = [b \in Bufs |-> <<>>]
    /\ calls = [b \in Bufs |-> [retain |-> 0, release |-> 0, append |-> 0, update |-> 0]]
    /\ thr = NoThreads

(***************************************************************************)
(* The native graph: a sequence of nodes; a node's identity is its index.  *)
(* hipGraphAdd*Node appends one node with the given predecessor list.      *)
(***************************************************************************)
GraphNode(kind, deps, p) == [kind |-> kind, deps |-> deps, p |-> p]

NoParams == [none |-> TRUE]

hipGraphAddNode(B, kind, deps, p) ==
    [B EXCEPT !.HIPGraph = Append(@, GraphNode(kind, deps, p))]

\* The node a successful hipGraphAdd*Node call on B hands back.
NewNodeOf(B) == Len(B.HIPGraph) + 1

(***************************************************************************)
(* Sync points.                                                            *)
(***************************************************************************)
\* addSyncPoint: registers node under NextSyncPoint and advances the counter;
\* the sync point returned is the value of NextSyncPoint before the call.
addSyncPoint(B, node) ==
    [B EXCEPT !.SyncPoints = (B.NextSyncPoint :> node) @@ @,
              !.NextSyncPoint = @ + 1]

getNodesFromSyncPointsIgnoresUnknown(B, wl) ==
    LET known == SelectSeq(wl.l, LAMBDA s : s \in DOMAIN B.SyncPoints)
    IN  [rc |-> "SUCCESS",
         nodes |-> [i \in 1..Len(known) |-> B.SyncPoints[known[i]]]]

\* getNodesFromSyncPoints: the nodes named by the wait-list, in wait-list
\* order, or INVALID_VALUE at the first sync point the registry does not hold.
getNodesFromSyncPoints(B, wl) ==
    IF \E i \in 1..wl.n : wl.l[i] \notin DOMAIN B.SyncPoints
    THEN [rc |-> "INVALID_VALUE", nodes |-> <<>>]
    ELSE [rc |-> "SUCCESS", nodes |-> [i \in 1..wl.n |-> B.SyncPoints[wl.l[i]]]]

\* The parameter-consistency check every append starts with.
NullWaitList(wl) == wl.l = NULL /\ wl.n > 0

(***************************************************************************)
(* Append operations.  Each is a function of the buffer and the call's     *)
(* inputs giving the buffer after the call, the result code and the sync   *)
(* point written to *pSyncPoint (-1: nothing written).  nativeOk is the    *)
(* outcome of the native add-node call; a failing native call throws a     *)
(* ur_result_t, which the operation's catch clause returns.                *)
(***************************************************************************)
Out(B, rc, sp) == [B |-> B, rc |-> rc, sp |-> sp]

\* The body shared by the single-node appends: resolve the wait-list, add
\* one node depending on its nodes, register the node under a new sync point.
AppendNodeAfterWaitList(B, wl, kind, p, nativeOk, okRc) ==
    IF NullWaitList(wl) THEN Out(B, "INVALID_EVENT_WAIT_LIST", -1)
    ELSE LET r == getNodesFromSyncPoints(B, wl) IN
         IF r.rc # "SUCCESS" THEN Out(B, r.rc, -1)
         ELSE IF ~nativeOk THEN Out(B, "NATIVE_ERROR", -1)
         ELSE Out(addSyncPoint(hipGraphAddNode(B, kind, r.nodes, p), NewNodeOf(B)),
                  okRc, B.NextSyncPoint)

urCommandBufferAppendUSMMemcpyExp(B, wl, nativeOk) ==
    AppendNodeAfterWaitList(B, wl, "memcpy", NoParams, nativeOk, "SUCCESS")

\* The allocated size of the memory buffers copies read and write.
MemSize == 4

\* size_t: offsets and sizes are unsigned words of WordBits bits, and their
\* sum is taken modulo 2^WordBits.
WordBits == 4

WordModulus == 2 ^ WordBits

BoundsCheckAlwaysPasses(offset, size, memSize) == TRUE

\* size + offset <= getSize(), the sum computed in size_t
BoundsCheck(offset, size, memSize) == (size + offset) % WordModulus <= memSize

urCommandBufferAppendMemBufferCopyExp(B, srcOffset, dstOffset, size, wl, nativeOk) ==
    IF NullWaitList(wl) THEN Out(B, "INVALID_EVENT_WAIT_LIST", -1)
    ELSE IF ~BoundsCheck(dstOffset, size, MemSize) THEN Out(B, "INVALID_SIZE", -1)
    ELSE IF ~BoundsCheck(srcOffset, size, MemSize) THEN Out(B, "INVALID_SIZE", -1)
    ELSE AppendNodeAfterWaitList(B, wl, "memcpy", NoParams, nativeOk, "SUCCESS")

urCommandBufferAppendMemBufferCopyRectExp(B, wl, nativeOk) ==
    AppendNodeAfterWaitList(B, wl, "memcpy", NoParams, nativeOk, "SUCCESS")

urCommandBufferAppendMemBufferWriteExp(B, wl, nativeOk) ==
    AppendNodeAfterWaitList(B, wl, "memcpy", NoParams, nativeOk, "SUCCESS")

urCommandBufferAppendMemBufferReadExp(B, wl, nativeOk) ==
    AppendNodeAfterWaitList(B, wl, "memcpy", NoParams, nativeOk, "SUCCESS")

urCommandBufferAppendMemBufferWriteRectExp(B, wl, nativeOk) ==
    AppendNodeAfterWaitList(B, wl, "memcpy", NoParams, nativeOk, "SUCCESS")

urCommandBufferAppendMemBufferReadRectExp(B, wl, nativeOk) ==
    AppendNodeAfterWaitList(B, wl, "memcpy", NoParams, nativeOk, "SUCCESS")

PrefetchReportsSuccess(B, wl, nativeOk) ==
    AppendNodeAfterWaitList(B, wl, "empty", NoParams, nativeOk, "SUCCESS")

\* Prefetch and advise are recorded as empty nodes and report the
\* adapter-specific status.
urCommandBufferAppendUSMPrefetchExp(B, wl, nativeOk) ==
    AppendNodeAfterWaitList(B, wl, "empty", NoParams, nativeOk, "ADAPTER_SPECIFIC")

urCommandBufferAppendUSMAdviseExp(B, wl, nativeOk) ==
    AppendNodeAfterWaitList(B, wl, "empty", NoParams, nativeOk, "ADAPTER_SPECIFIC")

(***************************************************************************)
(* Memory fill.  The pattern of width P is the bytes 1, 2, ..., P.         *)
(***************************************************************************)
Pattern(P) == [i \in 1..P |-> i]

MemsetParams(dst, elementSize, height, pitch, value) ==
    [dst |-> dst, elementSize |-> elementSize, height |-> height,
     pitch |-> pitch, value |-> value, width |-> 1]

NativeMemsetWidth == 4

\* The bytes of device memory that the fills are run on, addresses
\* 0 .. DeviceBytes - 1, all zero before a fill.
DeviceBytes == 26

ZeroMemory == [a \in 0..(DeviceBytes - 1) |-> 0]

\* A memset node executed: with width 1 it writes one element of
\* elementSize bytes, the bytes of value, at the start of each of height
\* rows that lie pitch bytes apart from dst on.
ExecMemset(mem, p) ==
    [a \in DOMAIN mem |->
        IF \E r \in 0..(p.height - 1) :
               a - (p.dst + r * p.pitch) \in 0..(p.elementSize - 1)
        THEN p.value[((a - p.dst) % p.pitch) + 1]
        ELSE mem[a]]

\* The memset nodes lo .. hi of graph G executed one after the other.
RECURSIVE ExecNodes(_, _, _, _)
ExecNodes(G, lo, hi, mem) ==
    IF lo > hi THEN mem
    ELSE ExecNodes(G, lo + 1, hi, ExecMemset(mem, G[lo].p))

RECURSIVE FillStepsNarrowPitch(_, _, _, _, _, _, _, _)
FillStepsNarrowPitch(B, dst, P, Size, Step, prev, sp, failAt) ==
    IF ~(Step < P) THEN Out(B, "SUCCESS", sp)
    ELSE IF failAt = 1 THEN Out(B, "NATIVE_ERROR", sp)
    ELSE LET B1 == hipGraphAddNode(B, "memset", <<prev>>,
                       MemsetParams(dst + Step, 1, Size \div P, NativeMemsetWidth,
                                    <<Pattern(P)[Step + 1]>>))
             n  == NewNodeOf(B)
         IN  FillStepsNarrowPitch(addSyncPoint(B1, n), dst, P, Size, Step + 1, n,
                                  B1.NextSyncPoint, IF failAt = 0 THEN 0 ELSE failAt - 1)

RECURSIVE FillStepsUnchained(_, _, _, _, _, _, _, _)
FillStepsUnchained(B, dst, P, Size, Step, prev, sp, failAt) ==
    IF ~(Step < P) THEN Out(B, "SUCCESS", sp)
    ELSE IF failAt = 1 THEN Out(B, "NATIVE_ERROR", sp)
    ELSE LET B1 == hipGraphAddNode(B, "memset", <<>>,
                       MemsetParams(dst + Step, 1, Size \div P, P,
                                    <<Pattern(P)[Step + 1]>>))
             n  == NewNodeOf(B)
         IN  FillStepsUnchained(addSyncPoint(B1, n), dst, P, Size, Step + 1, n,
                                B1.NextSyncPoint, IF failAt = 0 THEN 0 ELSE failAt - 1)

\* The loop of the decomposed fill: one 1-byte memset node per pattern byte
\* from Step on, each depending on the node added before it and each
\* registered under a sync point of its own.  failAt counts the native calls
\* left before the one that fails (0: none fails).
RECURSIVE FillSteps(_, _, _, _, _, _, _, _)
FillSteps(B, dst, P, Size, Step, prev, sp, failAt) ==
    IF ~(Step < P) THEN Out(B, "SUCCESS", sp)
    ELSE IF failAt = 1 THEN Out(B, "NATIVE_ERROR", sp)
    ELSE LET B1 == hipGraphAddNode(B, "memset", <<prev>>,
                       MemsetParams(dst + Step, 1, Size \div P, P,
                                    <<Pattern(P)[Step + 1]>>))
             n  == NewNodeOf(B)
         IN  FillSteps(addSyncPoint(B1, n), dst, P, Size, Step + 1, n,
                       B1.NextSyncPoint, IF failAt = 0 THEN 0 ELSE failAt - 1)

enqueueCommandBufferFillHelper(B, dst, P, Size, wl, failAt) ==
    LET r == getNodesFromSyncPoints(B, wl) IN
    IF r.rc # "SUCCESS" THEN Out(B, r.rc, -1)
    ELSE IF failAt = 1 THEN Out(B, "NATIVE_ERROR", -1)
    ELSE IF P \in {1, 2, 4}
    THEN Out(addSyncPoint(hipGraphAddNode(B, "memset", r.nodes,
                 MemsetParams(dst, P, Size \div P, P, Pattern(P))), NewNodeOf(B)),
             "SUCCESS", B.NextSyncPoint)
    ELSE LET B1 == hipGraphAddNode(B, "memset", r.nodes,
                       MemsetParams(dst, NativeMemsetWidth,
                                    Size \div NativeMemsetWidth, NativeMemsetWidth,
                                    SubSeq(Pattern(P), 1, NativeMemsetWidth)))
             n  == NewNodeOf(B)
         IN  FillSteps(addSyncPoint(B1, n), dst, P, Size, NativeMemsetWidth, n,
                       B1.NextSyncPoint, IF failAt = 0 THEN 0 ELSE failAt - 1)

\* (patternSize & (patternSize - 1)) == 0 && patternSize > 0
RECURSIVE IsPowerOfTwo(_)
IsPowerOfTwo(P) == P > 0 /\ (P = 1 \/ (P % 2 = 0 /\ IsPowerOfTwo(P \div 2)))

\* patternSize = 0 makes offset % patternSize a division by zero, which is
\* undefined: divZero is what the build does with it ("crash", or the truth
\* value the expression is given).
urCommandBufferAppendMemBufferFillExp(B, patNull, P, offset, size, wl, failAt, divZero) ==
    IF P = 0 /\ divZero = "crash" THEN Out(B, "CRASH", -1)
    ELSE LET ArgsAreMultiplesOfPatternSize ==
                 IF P = 0 THEN divZero = "true"
                 ELSE (offset % P = 0) \/ (size % P = 0)
         IN  IF ~(ArgsAreMultiplesOfPatternSize /\ ~patNull /\ IsPowerOfTwo(P))
             THEN Out(B, "INVALID_SIZE", -1)
             ELSE IF NullWaitList(wl) THEN Out(B, "INVALID_EVENT_WAIT_LIST", -1)
             ELSE enqueueCommandBufferFillHelper(B, offset, P, size, wl, failAt)

urCommandBufferAppendUSMFillExp(B, patNull, P, size, wl, failAt) ==
    IF NullWaitList(wl) THEN Out(B, "INVALID_EVENT_WAIT_LIST", -1)
    ELSE IF ~(~patNull /\ IsPowerOfTwo(P)) THEN Out(B, "INVALID_SIZE", -1)
    ELSE enqueueCommandBufferFillHelper(B, 0, P, size, wl, failAt)

(***************************************************************************)
(* Kernel launch geometry.                                                 *)
(***************************************************************************)
\* The largest work-group size the device accepts along one dimension.
MaxThreadsPerBlock == 4

LargestDivisor(g, cap) ==
    IF g = 0 THEN 1
    ELSE CHOOSE d \in 1..cap : g % d = 0 /\ \A e \in (d + 1)..cap : g % e # 0

\* setKernelParams: the block and grid dimensions of a launch.  With a local
\* work size the block is that size, which must divide the global size;
\* without one a block size dividing the global size is chosen along the
\* first dimension.  The grid is the global size divided by the block, rounded
\* up.  ok = FALSE: the kernel or the device rejects the launch.
setKernelParams(WorkDim, GlobalWorkSize, LocalWorkSize, ok) ==
    LET Threads == [i \in 1..3 |->
                      IF i > WorkDim THEN 1
                      ELSE IF LocalWorkSize # NULL THEN LocalWorkSize[i]
                      ELSE IF i = 1 THEN LargestDivisor(GlobalWorkSize[1], MaxThreadsPerBlock)
                      ELSE 1]
    IN  IF ~ok THEN [rc |-> "INVALID_KERNEL_ARGS"]
        ELSE IF \E i \in 1..WorkDim : Threads[i] = 0 \/ GlobalWorkSize[i] % Threads[i] # 0
        THEN [rc |-> "INVALID_WORK_GROUP_SIZE"]
        ELSE [rc |-> "SUCCESS", ThreadsPerBlock |-> Threads,
              BlocksPerGrid |-> [i \in 1..3 |->
                  IF i > WorkDim THEN 1 ELSE CeilDiv(GlobalWorkSize[i], Threads[i])]]

\* hipKernelNodeParams, as far as the launch geometry determines it.
KernelNodeParams(kp, sharedMemBytes) ==
    [gridDim |-> kp.BlocksPerGrid, blockDim |-> kp.ThreadsPerBlock,
     sharedMemBytes |-> sharedMemBytes]

(***************************************************************************)
(* Command handles.                                                        *)
(***************************************************************************)
\* ur_exp_command_buffer_command_handle_t_ constructor.  The entries of
\* LocalWorkSize beyond WorkDim are not written when a local size is given:
\* junk is the value the allocation happens to hold there.
NewCommand(b, Node, Params, WorkDim, pOff, pSize, pLocal, junk) ==
    [st |-> "alive", CommandBuffer |-> b, Node |-> Node, Params |-> Params,
     WorkDim |-> WorkDim,
     GlobalWorkOffset |-> CopyAndZero(pOff, WorkDim),
     GlobalWorkSize |-> CopyAndZero(pSize, WorkDim),
     LocalWorkSize |-> IF pLocal # NULL
                       THEN [i \in 1..3 |-> IF i <= WorkDim THEN pLocal[i] ELSE junk]
                       ELSE Zero3,
     RefCountInternal |-> 1, RefCountExternal |-> 1,
     returned |-> FALSE,    \* the handle was given to the caller (*phCommand)
     touched |-> FALSE]     \* an Update call has changed or patched the command

CtorKeepsBufferCount(B) == B

\* The constructor's CommandBuffer->incrementInternalReferenceCount().
CtorRetainsBuffer(B) == [B EXCEPT !.RefCountInternal = @ + 1]

\* *pGlobalWorkSize == 0
ZeroSizeCheck(WorkDim, pSize) == pSize[1] = 0

\* urCommandBufferAppendKernelLaunchExp: the buffer after the call, the
\* result, the sync point written, and the command handle created (if any).
KOut(B, rc, sp, new, clear) ==
    [B |-> B, rc |-> rc, sp |-> sp, new |-> new, clearLocalSize |-> clear]

urCommandBufferAppendKernelLaunchExp(b, B, K, cid, sameCtx, workDim, pOff, pSize, pLocal, wl, wantSP, kpOk, nativeOk, junk) ==
    IF ~sameCtx THEN KOut(B, "INVALID_KERNEL", -1, <<>>, FALSE)
    ELSE IF ~(workDim > 0) THEN KOut(B, "INVALID_WORK_DIMENSION", -1, <<>>, FALSE)
    ELSE IF ~(workDim < 4) THEN KOut(B, "INVALID_WORK_DIMENSION", -1, <<>>, FALSE)
    ELSE IF NullWaitList(wl) THEN KOut(B, "INVALID_EVENT_WAIT_LIST", -1, <<>>, FALSE)
    ELSE LET r == getNodesFromSyncPoints(B, wl) IN
    IF r.rc # "SUCCESS" THEN KOut(B, r.rc, -1, <<>>, FALSE)
    ELSE IF ZeroSizeCheck(workDim, pSize)
    THEN \* an empty node carrying the dependencies
         \* (*pSyncPoint is written unconditionally here: a null pSyncPoint
         \* is a null-pointer write)
         IF ~nativeOk THEN KOut(B, "NATIVE_ERROR", -1, <<>>, FALSE)
         ELSE LET B1 == addSyncPoint(hipGraphAddNode(B, "empty", r.nodes, NoParams),
                                     NewNodeOf(B))
              IN  IF wantSP THEN KOut(B1, "SUCCESS", B.NextSyncPoint, <<>>, FALSE)
                  ELSE KOut(B1, "CRASH", -1, <<>>, FALSE)
    ELSE LET LocalSize == K.localSize
             kp == setKernelParams(workDim, pSize, pLocal, kpOk)
         IN
    IF kp.rc # "SUCCESS" THEN KOut(B, kp.rc, -1, <<>>, FALSE)
    ELSE IF ~nativeOk THEN KOut(B, "NATIVE_ERROR", -1, <<>>, FALSE)
    ELSE LET NodeParams == KernelNodeParams(kp, LocalSize)
             B1 == hipGraphAddNode(B, "kernel", r.nodes, NodeParams)
             n  == NewNodeOf(B)
             B2 == IF wantSP THEN addSyncPoint(B1, n) ELSE B1
             c  == NewCommand(b, n, NodeParams, workDim, pOff, pSize, pLocal, junk)
             \* NewCommand->incrementInternalReferenceCount()
             c1 == [c EXCEPT !.RefCountInternal = @ + 1]
             \* hCommandBuffer->CommandHandles.push_back(NewCommand)
             B3 == [CtorRetainsBuffer(B2) EXCEPT !.CommandHandles = Append(@, cid)]
         IN  KOut(B3, "SUCCESS", IF wantSP THEN B1.NextSyncPoint ELSE -1,
                  <<c1>>, LocalSize # 0)

(***************************************************************************)
(* Reference counting and destruction.  These work on the pair of heaps    *)
(* S = [cb, cmds, uaf]; uaf records a use of an object after its delete.   *)
(***************************************************************************)
Heap(cbs, cs) == [cb |-> cbs, cmds |-> cs, uaf |-> FALSE]

\* ~ur_exp_command_buffer_handle_t_: the graph is destroyed, and the
\* executable graph if there is one.
DestroyCommandBuffer(B) ==
    [B EXCEPT !.st = "dead",
              !.execsDestroyed = @ + (IF B.HIPGraphExec.live THEN 1 ELSE 0)]

commandBufferReleaseInternalDeletesEarly(S, b) ==
    [S EXCEPT !.cb[b] = DestroyCommandBuffer([@ EXCEPT !.RefCountInternal = @ - 1])]

commandBufferReleaseInternal(S, b) ==
    IF S.cb[b].st # "alive" THEN [S EXCEPT !.uaf = TRUE]
    ELSE IF S.cb[b].RefCountInternal - 1 # 0
    THEN [S EXCEPT !.cb[b].RefCountInternal = @ - 1]
    ELSE [S EXCEPT !.cb[b] = DestroyCommandBuffer([@ EXCEPT !.RefCountInternal = 0])]

commandHandleReleaseInternal(S, c) ==
    IF S.cmds[c].st # "alive" THEN [S EXCEPT !.uaf = TRUE]
    ELSE IF S.cmds[c].RefCountInternal - 1 # 0
    THEN [S EXCEPT !.cmds[c].RefCountInternal = @ - 1]
    ELSE LET S1 == commandBufferReleaseInternal(S, S.cmds[c].CommandBuffer)
         IN  [S1 EXCEPT !.cmds[c].RefCountInternal = 0, !.cmds[c].st = "dead"]

\* for (auto Command : hCommandBuffer->CommandHandles)
\*   commandHandleReleaseInternal(Command);
RECURSIVE ReleaseCommandHandles(_, _, _)
ReleaseCommandHandles(S, list, i) ==
    IF i > Len(list) THEN S
    ELSE ReleaseCommandHandles(commandHandleReleaseInternal(S, list[i]), list, i + 1)

urCommandBufferRetainExternalOnly(S, b) ==
    [S EXCEPT !.cb[b].RefCountExternal = @ + 1]

urCommandBufferRetainExp(S, b) ==
    [S EXCEPT !.cb[b].RefCountInternal = @ + 1, !.cb[b].RefCountExternal = @ + 1]

urCommandBufferReleaseExp(S, b) ==
    LET S1 == [S EXCEPT !.cb[b].RefCountExternal = @ - 1]
        S2 == IF S1.cb[b].RefCountExternal = 0
              THEN ReleaseCommandHandles(S1, S1.cb[b].CommandHandles, 1)
              ELSE S1
    IN  commandBufferReleaseInternal(S2, b)

urCommandBufferRetainCommandExp(S, c) ==
    [S EXCEPT !.cmds[c].RefCountExternal = @ + 1, !.cmds[c].RefCountInternal = @ + 1]

urCommandBufferReleaseCommandExp(S, c) ==
    commandHandleReleaseInternal([S EXCEPT !.cmds[c].RefCountExternal = @ - 1], c)

(***************************************************************************)
(* Finalize.                                                               *)
(***************************************************************************)
\* hipGraphInstantiateWithFlags: the executable graph is a copy of the graph
\* as it is at the call.
urCommandBufferFinalizeExp(B, nativeOk) ==
    IF ~nativeOk THEN [B |-> B, rc |-> "UNKNOWN"]
    ELSE [B |-> [B EXCEPT !.HIPGraphExec = [live |-> TRUE, nodes |-> B.HIPGraph],
                          !.execsCreated = @ + 1],
          rc |-> "SUCCESS"]

(***************************************************************************)
(* Update of a kernel launch.                                              *)
(***************************************************************************)
\* Kernel->setKernelArg(index, size, value).
setKernelArg(K, argIndex, value) == [K EXCEPT !.args[argIndex + 1] = value]

\* The backend address of memory object m on the device.
DevicePtr(m) == 10 + m

RECURSIVE PatchArgsPastFailure(_, _, _, _)
PatchArgsPastFailure(K, list, i, isMemObj) ==
    IF i > Len(list) THEN [K |-> K, rc |-> "SUCCESS"]
    ELSE LET rest == PatchArgsPastFailure(
                         IF ~list[i].ok THEN K
                         ELSE setKernelArg(K, list[i].argIndex,
                                  IF ~isMemObj THEN list[i].val
                                  ELSE IF list[i].val = 0 THEN 0
                                  ELSE DevicePtr(list[i].val)),
                         list, i + 1, isMemObj)
         IN  IF ~list[i].ok THEN [K |-> rest.K, rc |-> "INVALID_KERNEL_ARGS"] ELSE rest

\* One loop of argument patches: each patch is [argIndex, val, ok]; a patch
\* with ok = FALSE makes setKernelArg throw, and the loop returns that error
\* with the patches before it applied.
RECURSIVE PatchArgs(_, _, _, _)
PatchArgs(K, list, i, isMemObj) ==
    IF i > Len(list) THEN [K |-> K, rc |-> "SUCCESS"]
    ELSE IF ~list[i].ok THEN [K |-> K, rc |-> "INVALID_KERNEL_ARGS"]
    ELSE PatchArgs(setKernelArg(K, list[i].argIndex,
                                IF ~isMemObj THEN list[i].val
                                ELSE IF list[i].val = 0 THEN 0
                                ELSE DevicePtr(list[i].val)),
                   list, i + 1, isMemObj)

\* setGlobalOffset / setGlobalSize / setLocalSize of the command handle.
setGeometryField(ptr, WorkDim) == CopyAndZero(ptr, WorkDim)

UOut(B, C, K, rc) == [B |-> B, C |-> C, K |-> K, rc |-> rc]

UpdateGuardIgnoresUpdatable(B) == ~B.HIPGraphExec.live

\* Update needs a finalized buffer that was created updatable.
UpdateNotAllowed(B) == ~B.HIPGraphExec.live \/ ~B.IsUpdatable

MergeGeometryOverwritesOmitted(C, u) ==
    LET wd == IF u.newWorkDim # 0 THEN u.newWorkDim ELSE C.WorkDim
    IN  [C EXCEPT !.WorkDim = wd,
                  !.GlobalWorkOffset = IF u.pOff # NULL THEN setGeometryField(u.pOff, wd) ELSE Zero3,
                  !.GlobalWorkSize = IF u.pSize # NULL THEN setGeometryField(u.pSize, wd) ELSE @,
                  !.LocalWorkSize = IF u.pLocal # NULL THEN setGeometryField(u.pLocal, wd) ELSE @]

\* The new work dimension, global offset, global size and local size are
\* stored in the command handle, each only if it was supplied.
MergeGeometry(C, u) ==
    LET wd == IF u.newWorkDim # 0 THEN u.newWorkDim ELSE C.WorkDim
    IN  [C EXCEPT !.WorkDim = wd,
                  !.GlobalWorkOffset = IF u.pOff # NULL THEN setGeometryField(u.pOff, wd) ELSE @,
                  !.GlobalWorkSize = IF u.pSize # NULL THEN setGeometryField(u.pSize, wd) ELSE @,
                  !.LocalWorkSize = IF u.pLocal # NULL THEN setGeometryField(u.pLocal, wd) ELSE @]

PatchExecNodeNot(B, Node, Params) == B

PatchExecNodeReplacesNode(B, Node, Params) ==
    [B EXCEPT !.HIPGraphExec.nodes[Node] = GraphNode("kernel", <<>>, Params),
              !.HIPGraph = Append(@, GraphNode("kernel", <<>>, Params))]

\* hipGraphExecKernelNodeSetParams: the node keeps its place in the
\* executable graph and gets the new parameters.
PatchExecNode(B, Node, Params) ==
    [B EXCEPT !.HIPGraphExec.nodes[Node].p = Params]

urCommandBufferUpdateKernelLaunchExp(B, C, K, u, kpOk, nativeOk) ==
    IF UpdateNotAllowed(B) THEN UOut(B, C, K, "INVALID_OPERATION")
    ELSE LET a1 == PatchArgs(K, u.ptrArgs, 1, FALSE) IN
    IF a1.rc # "SUCCESS" THEN UOut(B, C, a1.K, a1.rc)
    ELSE LET a2 == PatchArgs(a1.K, u.memArgs, 1, TRUE) IN
    IF a2.rc # "SUCCESS" THEN UOut(B, C, a2.K, a2.rc)
    ELSE LET a3 == PatchArgs(a2.K, u.valArgs, 1, FALSE) IN
    IF a3.rc # "SUCCESS" THEN UOut(B, C, a3.K, a3.rc)
    ELSE IF u.newWorkDim # 0 /\ ~(u.newWorkDim < 4)
    THEN UOut(B, C, a3.K, "INVALID_WORK_DIMENSION")
    ELSE LET C1 == MergeGeometry(C, u)
             ProvidedLocalSize == \E i \in 1..3 : C1.LocalWorkSize[i] # 0
             kp == setKernelParams(C1.WorkDim, C1.GlobalWorkSize,
                                   IF ProvidedLocalSize THEN C1.LocalWorkSize ELSE NULL,
                                   kpOk)
         IN
    IF kp.rc # "SUCCESS" THEN UOut(B, C1, a3.K, kp.rc)
    ELSE LET C2 == [C1 EXCEPT !.Params = KernelNodeParams(kp, a3.K.localSize)] IN
    \* a failing hipGraphExecKernelNodeSetParams throws outside any try block
    IF ~nativeOk \/ C2.Node > Len(B.HIPGraphExec.nodes)
    THEN UOut(B, C2, a3.K, "UNCAUGHT_EXCEPTION")
    ELSE UOut(PatchExecNode(B, C2.Node, C2.Params), C2, a3.K, "SUCCESS")

(***************************************************************************)
(* Enqueue.                                                                *)
(***************************************************************************)
EOut(rc, steps, launched, event) ==
    [rc |-> rc, steps |-> steps, launched |-> launched, event |-> event]

urCommandBufferEnqueueLaunchesFirst(B, wantEvent, waitOk, startOk, launchOk, recordOk) ==
    IF ~launchOk \/ ~B.HIPGraphExec.live THEN EOut("NATIVE_ERROR", <<>>, FALSE, FALSE)
    ELSE IF ~waitOk THEN EOut("NATIVE_ERROR", <<"launch">>, TRUE, FALSE)
    ELSE IF ~wantEvent THEN EOut("SUCCESS", <<"launch", "wait">>, TRUE, FALSE)
    ELSE IF ~startOk \/ ~recordOk THEN EOut("NATIVE_ERROR", <<"launch", "wait">>, TRUE, FALSE)
    ELSE EOut("SUCCESS", <<"launch", "wait", "start", "record">>, TRUE, TRUE)

\* urCommandBufferEnqueueExp: the operations put on the stream, in order,
\* whether the graph was launched and whether an event is handed back.
\* waitOk, startOk, launchOk, recordOk are the outcomes of the native calls;
\* launching a null executable graph fails in the native layer.
urCommandBufferEnqueueExp(B, wantEvent, waitOk, startOk, launchOk, recordOk) ==
    IF ~waitOk THEN EOut("NATIVE_ERROR", <<>>, FALSE, FALSE)
    ELSE IF wantEvent /\ ~startOk THEN EOut("NATIVE_ERROR", <<"wait">>, FALSE, FALSE)
    ELSE LET pre == IF wantEvent THEN <<"wait", "start">> ELSE <<"wait">> IN
    IF ~launchOk \/ ~B.HIPGraphExec.live THEN EOut("NATIVE_ERROR", pre, FALSE, FALSE)
    ELSE IF ~wantEvent THEN EOut("SUCCESS", Append(pre, "launch"), TRUE, FALSE)
    ELSE IF ~recordOk THEN EOut("NATIVE_ERROR", Append(pre, "launch"), TRUE, FALSE)
    ELSE EOut("SUCCESS", pre \o <<"launch", "record">>, TRUE, TRUE)

(***************************************************************************)
(* Actions: one per API entry point.  A caller uses an object only while   *)
(* it holds a reference to it, and nothing runs after a crash.             *)
(***************************************************************************)
Running == last.rc # "CRASH"

Held(b) == cb[b].st = "alive" /\ cb[b].RefCountExternal > 0

HeldCommand(c) ==
    /\ c \in 1..Len(cmds)
    /\ cmds[c].st = "alive" /\ cmds[c].returned /\ cmds[c].RefCountExternal > 0

TotalAppends == calls[1].append + calls[2].append

Succeeded(rc) == rc \in {"SUCCESS", "ADAPTER_SPECIFIC"}

\* urCommandBufferCreateExp.  allocOk: operator new succeeds; graphOk:
\* hipGraphCreate succeeds.  When hipGraphCreate fails the object stays
\* allocated and the error is returned.
Create(b, isUpdatable, allocOk, graphOk) ==
    /\ Running /\ cb[b].st = "none"
    /\ cb' = [cb EXCEPT ![b] =
                IF ~allocOk THEN @
                ELSE IF ~graphOk THEN [NewCommandBuffer(isUpdatable) EXCEPT !.st = "leaked"]
                ELSE NewCommandBuffer(isUpdatable)]
    /\ last' = [NoCall EXCEPT !.op = "Create", !.b = b,
                  !.rc = IF ~allocOk THEN "OUT_OF_HOST_MEMORY"
                         ELSE IF ~graphOk THEN "OUT_OF_RESOURCES" ELSE "SUCCESS"]
    /\ UNCHANGED <<cmds, kernel, issued, noWait, inflight, launches, calls, thr>>

\* What is recorded of a call's wait-list: whether it was given, whether it
\* is a null pointer with a count above zero, whether it
\* names a sync point the buffer's registry does not hold, and whether it
\* names a sync point that another buffer handed out.
RangeOf(seq) == {seq[i] : i \in 1..Len(seq)}

WaitListFlags(b, wl) ==
    (IF wl.n > 0 THEN {"waitList"} ELSE {})
    \cup (IF NullWaitList(wl) THEN {"nullWaitList"} ELSE {})
    \cup (IF \E i \in 1..Len(wl.l) : wl.l[i] \notin DOMAIN cb[b].SyncPoints
          THEN {"unknownId"} ELSE {})
    \cup (IF \E i \in 1..Len(wl.l) : \E a \in Bufs \ {b} : wl.l[i] \in RangeOf(issued[a])
          THEN {"foreignId"} ELSE {})

\* What is recorded of a launch geometry: a valid work dimension with a
\* global size of zero along some dimension, and along the first one.
GeometryFlags(workDim, pSize) ==
    (IF workDim \in 1..3 /\ (\E i \in 1..workDim : pSize[i] = 0)
     THEN {"zeroDim"} ELSE {})
    \cup (IF workDim \in 1..3 /\ pSize[1] = 0 THEN {"zeroFirstDim"} ELSE {})

\* What is recorded of a call's other parameters: whether one of them is
\* not valid for the operation.
InvalidIf(cond) == IF cond THEN {"invalidParam"} ELSE {}

\* What every append leaves behind besides the buffer itself.  The wait-list
\* is recorded for the calls that were accepted.
AppendDone(op, b, wl, out, call) ==
    /\ last' = [call EXCEPT !.op = op, !.b = b, !.rc = out.rc,
                            !.sp = IF Succeeded(out.rc) THEN out.sp ELSE -1,
                            !.wl = IF Succeeded(out.rc) THEN wl ELSE @,
                            !.flags = @ \cup WaitListFlags(b, wl)]
    /\ issued' = IF Succeeded(out.rc) /\ out.sp # -1
                 THEN [issued EXCEPT ![b] = Append(@, out.sp)] ELSE issued
    /\ noWait' = IF Succeeded(out.rc) THEN [noWait EXCEPT ![b] = @ /\ wl.n = 0] ELSE noWait
    /\ calls' = IF out.B # cb[b] THEN [calls EXCEPT ![b].append = @ + 1] ELSE calls
    /\ UNCHANGED <<inflight, launches, thr>>

CanAppend(b) ==
    Running /\ Held(b) /\ calls[b].append < MaxAppends /\ TotalAppends <= MaxAppends

AppendKernelLaunch(b, sameCtx, workDim, pOff, pSize, pLocal, wl, wantSP, wantCmd, kpOk, nativeOk, junk) ==
    /\ CanAppend(b)
    /\ LET out == urCommandBufferAppendKernelLaunchExp(b, cb[b], kernel, Len(cmds) + 1,
                      sameCtx, workDim, pOff, pSize, pLocal, wl, wantSP, kpOk,
                      nativeOk, junk)
           made == out.new # <<>>
       IN  /\ cb' = [cb EXCEPT ![b] = out.B]
           /\ cmds' = IF made THEN Append(cmds, [out.new[1] EXCEPT !.returned = wantCmd])
                      ELSE cmds
           /\ kernel' = IF out.clearLocalSize THEN [kernel EXCEPT !.localSize = 0]
                        ELSE kernel
           /\ AppendDone("KernelLaunch", b, wl, out,
                  [NoCall EXCEPT !.flags = GeometryFlags(workDim, pSize) \cup
                                     InvalidIf(~sameCtx \/ workDim \notin 1..3),
                                 !.cmd = IF made /\ wantCmd THEN Len(cmds) + 1 ELSE 0])

AppendPlain(op, b, wl, out) ==
    /\ CanAppend(b)
    /\ cb' = [cb EXCEPT ![b] = out.B]
    /\ AppendDone(op, b, wl, out, NoCall)
    /\ UNCHANGED <<cmds, kernel>>

AppendUSMMemcpy(b, wl, nativeOk) ==
    AppendPlain("USMMemcpy", b, wl, urCommandBufferAppendUSMMemcpyExp(cb[b], wl, nativeOk))

\* What is recorded of a copy besides its offsets and size: whether the sum
\* of the size and an offset does not fit the machine word.
WrapFlags(srcOffset, dstOffset, size) ==
    IF size + srcOffset >= WordModulus \/ size + dstOffset >= WordModulus
    THEN {"wraps"} ELSE {}

AppendMemBufferCopy(b, srcOffset, dstOffset, size, wl, nativeOk) ==
    /\ CanAppend(b)
    /\ LET out == urCommandBufferAppendMemBufferCopyExp(cb[b], srcOffset, dstOffset,
                                                        size, wl, nativeOk)
       IN  /\ cb' = [cb EXCEPT ![b] = out.B]
           /\ AppendDone("MemBufferCopy", b, wl, out,
                  [NoCall EXCEPT !.flags = InvalidIf(size + srcOffset > MemSize
                                                     \/ size + dstOffset > MemSize)
                                          \cup WrapFlags(srcOffset, dstOffset, size),
                                 !.copy = [srcOffset |-> srcOffset,
                                           dstOffset |-> dstOffset, size |-> size]])
    /\ UNCHANGED <<cmds, kernel>>

AppendMemBufferCopyRect(b, wl, nativeOk) ==
    AppendPlain("MemBufferCopyRect", b, wl,
                urCommandBufferAppendMemBufferCopyRectExp(cb[b], wl, nativeOk))

AppendMemBufferWrite(b, wl, nativeOk) ==
    AppendPlain("MemBufferWrite", b, wl,
                urCommandBufferAppendMemBufferWriteExp(cb[b], wl, nativeOk))

AppendMemBufferRead(b, wl, nativeOk) ==
    AppendPlain("MemBufferRead", b, wl,
                urCommandBufferAppendMemBufferReadExp(cb[b], wl, nativeOk))

AppendMemBufferWriteRect(b, wl, nativeOk) ==
    AppendPlain("MemBufferWriteRect", b, wl,
                urCommandBufferAppendMemBufferWriteRectExp(cb[b], wl, nativeOk))

AppendMemBufferReadRect(b, wl, nativeOk) ==
    AppendPlain("MemBufferReadRect", b, wl,
                urCommandBufferAppendMemBufferReadRectExp(cb[b], wl, nativeOk))

AppendUSMPrefetch(b, wl, nativeOk) ==
    AppendPlain("USMPrefetch", b, wl,
                urCommandBufferAppendUSMPrefetchExp(cb[b], wl, nativeOk))

AppendUSMAdvise(b, wl, nativeOk) ==
    AppendPlain("USMAdvise", b, wl,
                urCommandBufferAppendUSMAdviseExp(cb[b], wl, nativeOk))

AppendMemBufferFill(b, patNull, P, offset, size, wl, failAt, divZero) ==
    /\ CanAppend(b)
    /\ LET out == urCommandBufferAppendMemBufferFillExp(cb[b], patNull, P, offset, size,
                                                        wl, failAt, divZero)
       IN  /\ cb' = [cb EXCEPT ![b] = out.B]
           /\ AppendDone("MemBufferFill", b, wl, out,
                  [NoCall EXCEPT !.flags = InvalidIf(
                      patNull \/ ~IsPowerOfTwo(P) \/ offset % P # 0 \/ size % P # 0),
                                 !.fill = [patNull |-> patNull, P |-> P,
                                           offset |-> offset, size |-> size]])
    /\ UNCHANGED <<cmds, kernel>>

AppendUSMFill(b, patNull, P, size, wl, failAt) ==
    /\ CanAppend(b)
    /\ LET out == urCommandBufferAppendUSMFillExp(cb[b], patNull, P, size, wl, failAt)
       IN  /\ cb' = [cb EXCEPT ![b] = out.B]
           /\ AppendDone("USMFill", b, wl, out,
                  [NoCall EXCEPT !.flags = InvalidIf(patNull \/ ~IsPowerOfTwo(P)),
                                 !.fill = [patNull |-> patNull, P |-> P,
                                           offset |-> 0, size |-> size]])
    /\ UNCHANGED <<cmds, kernel>>

\* A call of Finalize on a buffer for which fewer than max executable
\* graphs have been created.
FinalizeWithin(b, nativeOk, max) ==
    /\ Running /\ Held(b) /\ cb[b].execsCreated < max
    /\ LET out == urCommandBufferFinalizeExp(cb[b], nativeOk)
       IN  /\ cb' = [cb EXCEPT ![b] = out.B]
           /\ last' = [NoCall EXCEPT !.op = "Finalize", !.b = b, !.rc = out.rc]
    /\ UNCHANGED <<cmds, kernel, issued, noWait, inflight, launches, calls, thr>>

Finalize(b, nativeOk) == FinalizeWithin(b, nativeOk, MaxFinalize)

\* The parameters of the nodes of the executable graph, as a launch sees them.
ExecSnapshot(B) == [i \in 1..Len(B.HIPGraphExec.nodes) |-> B.HIPGraphExec.nodes[i].p]

\* What is recorded of a call of Enqueue: whether an event was asked for and
\* whether enqueuing the caller's event wait-list fails.
EnqueueFlags(wantEvent, waitOk) ==
    (IF wantEvent THEN {"wantEvent"} ELSE {})
    \cup (IF ~waitOk THEN {"waitFails"} ELSE {})

Enqueue(b, wantEvent, waitOk, startOk, launchOk, recordOk) ==
    /\ Running /\ Held(b) /\ Len(launches[b]) < MaxEnqueue
    /\ LET out == urCommandBufferEnqueueExp(cb[b], wantEvent, waitOk, startOk,
                                            launchOk, recordOk)
       IN  /\ last' = [NoCall EXCEPT !.op = "Enqueue", !.b = b, !.rc = out.rc,
                                     !.steps = out.steps, !.event = out.event,
                                     !.flags = EnqueueFlags(wantEvent, waitOk)]
           /\ launches' = IF out.launched
                          THEN [launches EXCEPT ![b] = Append(@, ExecSnapshot(cb[b]))]
                          ELSE launches
           /\ inflight' = IF out.launched THEN [inflight EXCEPT ![b] = @ + 1]
                          ELSE inflight
    /\ UNCHANGED <<cb, cmds, kernel, issued, noWait, calls, thr>>

\* The device finishes one submitted execution of the graph.
Complete(b) ==
    /\ Running /\ inflight[b] > 0
    /\ inflight' = [inflight EXCEPT ![b] = @ - 1]
    /\ last' = [NoCall EXCEPT !.op = "Complete", !.b = b]
    /\ UNCHANGED <<cb, cmds, kernel, issued, noWait, launches, calls, thr>>

HeapDone(op, b, c, S) ==
    /\ cb' = S.cb
    /\ cmds' = S.cmds
    /\ last' = [NoCall EXCEPT !.op = op, !.b = b, !.cmd = c,
                              !.rc = IF S.uaf THEN "CRASH" ELSE "SUCCESS"]
    /\ UNCHANGED <<kernel, issued, noWait, inflight, launches, thr>>

Retain(b) ==
    /\ Running /\ Held(b) /\ calls[b].retain < MaxRetain
    /\ HeapDone("Retain", b, 0, urCommandBufferRetainExp(Heap(cb, cmds), b))
    /\ calls' = [calls EXCEPT ![b].retain = @ + 1]

Release(b) ==
    /\ Running /\ Held(b)
    /\ HeapDone("Release", b, 0, urCommandBufferReleaseExp(Heap(cb, cmds), b))
    /\ calls' = [calls EXCEPT ![b].release = @ + 1]

RetainCommand(c) ==
    /\ Running /\ HeldCommand(c) /\ cmds[c].RefCountExternal < MaxRetain
    /\ HeapDone("RetainCommand", cmds[c].CommandBuffer, c,
                urCommandBufferRetainCommandExp(Heap(cb, cmds), c))
    /\ UNCHANGED calls

ReleaseCommand(c) ==
    /\ Running /\ HeldCommand(c)
    /\ HeapDone("ReleaseCommand", cmds[c].CommandBuffer, c,
                urCommandBufferReleaseCommandExp(Heap(cb, cmds), c))
    /\ UNCHANGED calls

(***************************************************************************)
(* Release and ReleaseCommand as threads run them: one step per atomic     *)
(* count operation, per read of the command-handle list and per delete.    *)
(* A thread's position holds the call it is in (op), the buffer b or the   *)
(* command c the call was made on, the index i of the force-release loop,  *)
(* and the buffer d that commandBufferReleaseInternal was called on.       *)
(***************************************************************************)
\* All threads are outside any call.
Quiet == \A t \in ThreadIds : thr.at[t] = Idle

\* Calls of Release on buffer b (of ReleaseCommand on command c) that have
\* been entered and have not yet taken their external reference away.
PendingReleases(b) ==
    Cardinality({t \in ThreadIds : thr.at[t].pc = "decExt" /\ thr.at[t].b = b})

PendingCommandReleases(c) ==
    Cardinality({t \in ThreadIds : thr.at[t].pc = "cDecExt" /\ thr.at[t].c = c})

ThreadFrame == UNCHANGED <<kernel, last, issued, noWait, inflight, launches, calls>>

\* The thread has used an object after its delete.
ThreadFault(t) ==
    /\ thr' = [thr EXCEPT !.uaf = TRUE, !.at[t] = Idle]
    /\ UNCHANGED <<cb, cmds>>

\* commandHandleReleaseInternal returns: into the loop of Release, or out of
\* ReleaseCommand.
ReturnFromHandleRelease(r) ==
    IF r.op = "Release" THEN [r EXCEPT !.pc = "loop", !.i = @ + 1, !.c = 0, !.d = 0]
    ELSE Idle

ReleaseForcesAlways(newCount) == TRUE

\* decrementExternalReferenceCount() == 0
ReleaseForces(newCount) == newCount = 0

\* A thread that owns an external reference to buffer b calls Release.
BeginRelease(t, b) ==
    /\ thr.at[t] = Idle /\ cb[b].st # "none"
    /\ cb[b].RefCountExternal - PendingReleases(b) > 0
    /\ thr' = [thr EXCEPT !.at[t] = [Idle EXCEPT !.op = "Release", !.pc = "decExt", !.b = b]]
    /\ UNCHANGED <<cb, cmds>> /\ ThreadFrame

\* A thread that owns an external reference to command c calls
\* ReleaseCommand.
BeginReleaseCommand(t, c) ==
    /\ thr.at[t] = Idle /\ c \in 1..Len(cmds) /\ cmds[c].returned
    /\ cmds[c].RefCountExternal - PendingCommandReleases(c) > 0
    /\ thr' = [thr EXCEPT !.at[t] =
                  [Idle EXCEPT !.op = "ReleaseCommand", !.pc = "cDecExt", !.c = c]]
    /\ UNCHANGED <<cb, cmds>> /\ ThreadFrame

\* Release: hCommandBuffer->decrementExternalReferenceCount() == 0
StepDecExt(t) ==
    /\ thr.at[t].pc = "decExt"
    /\ LET b == thr.at[t].b IN
       IF cb[b].st # "alive" THEN ThreadFault(t)
       ELSE /\ cb' = [cb EXCEPT ![b].RefCountExternal = @ - 1]
            /\ thr' = IF ReleaseForces(cb[b].RefCountExternal - 1)
                      THEN [thr EXCEPT !.at[t].pc = "loop", !.at[t].i = 1,
                                       !.forced = Append(@, b)]
                      ELSE [thr EXCEPT !.at[t].pc = "bufDec", !.at[t].d = b]
            /\ UNCHANGED cmds
    /\ ThreadFrame

\* Release: for (auto Command : hCommandBuffer->CommandHandles)
StepLoop(t) ==
    /\ thr.at[t].pc = "loop"
    /\ LET b == thr.at[t].b IN
       IF cb[b].st # "alive" THEN ThreadFault(t)
       ELSE /\ thr' = IF thr.at[t].i > Len(cb[b].CommandHandles)
                      THEN [thr EXCEPT !.at[t].pc = "bufDec", !.at[t].d = b]
                      ELSE [thr EXCEPT !.at[t].pc = "cmdDec",
                                       !.at[t].c = cb[b].CommandHandles[thr.at[t].i]]
            /\ UNCHANGED <<cb, cmds>>
    /\ ThreadFrame

\* ReleaseCommand: hCommand->decrementExternalReferenceCount()
StepCmdDecExt(t) ==
    /\ thr.at[t].pc = "cDecExt"
    /\ LET c == thr.at[t].c IN
       IF cmds[c].st # "alive" THEN ThreadFault(t)
       ELSE /\ cmds' = [cmds EXCEPT ![c].RefCountExternal = @ - 1]
            /\ thr' = [thr EXCEPT !.at[t].pc = "cmdDec"]
            /\ UNCHANGED cb
    /\ ThreadFrame

\* commandHandleReleaseInternal: Command->decrementInternalReferenceCount() != 0
StepCmdDec(t) ==
    /\ thr.at[t].pc = "cmdDec"
    /\ LET c == thr.at[t].c IN
       IF cmds[c].st # "alive" THEN ThreadFault(t)
       ELSE /\ cmds' = [cmds EXCEPT ![c].RefCountInternal = @ - 1]
            /\ thr' = IF cmds[c].RefCountInternal - 1 # 0
                      THEN [thr EXCEPT !.at[t] = ReturnFromHandleRelease(@)]
                      ELSE [thr EXCEPT !.at[t].pc = "cmdBufDec"]
            /\ UNCHANGED cb
    /\ ThreadFrame

\* commandHandleReleaseInternal: commandBufferReleaseInternal(Command->CommandBuffer),
\* up to its decrementInternalReferenceCount() != 0
StepCmdBufDec(t) ==
    /\ thr.at[t].pc = "cmdBufDec"
    /\ LET c == thr.at[t].c
           b == cmds[c].CommandBuffer
       IN  IF cmds[c].st # "alive" \/ cb[b].st # "alive" THEN ThreadFault(t)
           ELSE /\ cb' = [cb EXCEPT ![b].RefCountInternal = @ - 1]
                /\ thr' = [thr EXCEPT !.at[t].d = b,
                                      !.at[t].pc = IF cb[b].RefCountInternal - 1 # 0
                                                   THEN "cmdDel" ELSE "cmdBufDel"]
                /\ UNCHANGED cmds
    /\ ThreadFrame

\* Release: commandBufferReleaseInternal(hCommandBuffer), up to its
\* decrementInternalReferenceCount() != 0
StepBufDec(t) ==
    /\ thr.at[t].pc = "bufDec"
    /\ LET b == thr.at[t].d IN
       IF cb[b].st # "alive" THEN ThreadFault(t)
       ELSE /\ cb' = [cb EXCEPT ![b].RefCountInternal = @ - 1]
            /\ thr' = IF cb[b].RefCountInternal - 1 # 0
                      THEN [thr EXCEPT !.at[t] = Idle]
                      ELSE [thr EXCEPT !.at[t].pc = "bufDel"]
            /\ UNCHANGED cmds
    /\ ThreadFrame

\* commandBufferReleaseInternal: delete CommandBuffer
StepBufDelete(t) ==
    /\ thr.at[t].pc \in {"bufDel", "cmdBufDel"}
    /\ LET b == thr.at[t].d
           next == IF thr.at[t].pc = "bufDel" THEN Idle
                   ELSE [thr.at[t] EXCEPT !.pc = "cmdDel"]
       IN  /\ cb' = [cb EXCEPT ![b] = DestroyCommandBuffer(@)]
           /\ thr' = [thr EXCEPT !.at[t] = next,
                                 !.deletedBufs = Append(@, b),
                                 !.uaf = @ \/ cb[b].st # "alive"]
           /\ UNCHANGED cmds
    /\ ThreadFrame

\* commandHandleReleaseInternal: delete Command
StepCmdDelete(t) ==
    /\ thr.at[t].pc = "cmdDel"
    /\ LET c == thr.at[t].c IN
       /\ cmds' = [cmds EXCEPT ![c].st = "dead"]
       /\ thr' = [thr EXCEPT !.at[t] = ReturnFromHandleRelease(@),
                             !.deletedCmds = Append(@, c),
                             !.uaf = @ \/ cmds[c].st # "alive"]
       /\ UNCHANGED cb
    /\ ThreadFrame

Update(c, u, kpOk, nativeOk) ==
    /\ Running /\ HeldCommand(c)
    /\ calls[cmds[c].CommandBuffer].update < MaxUpdates
    /\ calls' = [calls EXCEPT ![cmds[c].CommandBuffer].update = @ + 1]
    /\ LET b == cmds[c].CommandBuffer IN
       IF cb[b].st # "alive"
       THEN /\ last' = [NoCall EXCEPT !.op = "Update", !.b = b, !.cmd = c, !.u = u,
                                      !.rc = "CRASH"]
            /\ UNCHANGED <<cb, cmds, kernel>>
       ELSE LET out == urCommandBufferUpdateKernelLaunchExp(cb[b], cmds[c], kernel, u,
                                                            kpOk, nativeOk)
            IN  /\ cb' = [cb EXCEPT ![b] = out.B]
                /\ cmds' = [cmds EXCEPT ![c] =
                              [out.C EXCEPT !.touched = @ \/ out.C # cmds[c]
                                                          \/ out.rc = "SUCCESS"]]
                /\ kernel' = out.K
                /\ last' = [NoCall EXCEPT !.op = "Update", !.b = b, !.cmd = c, !.u = u,
                                          !.rc = out.rc]
    /\ UNCHANGED <<issued, noWait, inflight, launches, thr>>

(***************************************************************************)
(* Inputs.                                                                 *)
(***************************************************************************)
\* Wait-lists: a null pointer with count 0 or 1, a list of one sync point,
\* or a list of two; the sync points are ids the buffer may or may not hold.
SyncPointIds == {0, 1, 4}

WaitLists ==
    {[n |-> 0, l |-> NULL], [n |-> 1, l |-> NULL], [n |-> 2, l |-> <<1, 0>>]}
        \cup {[n |-> 1, l |-> <<s>>] : s \in SyncPointIds}

\* Calls of append-kernel-launch: a plain one-dimensional launch, and the
\* same call with one input or one outcome changed.
PlainLaunch ==
    [sameCtx |-> TRUE, wd |-> 1, size |-> <<2, 0, 0>>, local |-> NULL,
     wantSP |-> TRUE, wantCmd |-> TRUE, kpOk |-> TRUE, ok |-> TRUE]

KernelCalls ==
    {PlainLaunch,
     [PlainLaunch EXCEPT !.sameCtx = FALSE],
     [PlainLaunch EXCEPT !.wd = 0],
     [PlainLaunch EXCEPT !.wd = 4, !.size = <<2, 2, 2>>],
     [PlainLaunch EXCEPT !.size = <<0, 0, 0>>],
     [PlainLaunch EXCEPT !.size = <<0, 0, 0>>, !.ok = FALSE],
     [PlainLaunch EXCEPT !.size = <<0, 0, 0>>, !.wantSP = FALSE],
     [PlainLaunch EXCEPT !.wd = 2, !.size = <<0, 2, 0>>],
     [PlainLaunch EXCEPT !.wd = 2, !.size = <<2, 0, 0>>],
     [PlainLaunch EXCEPT !.wd = 3, !.size = <<2, 2, 0>>],
     [PlainLaunch EXCEPT !.wantSP = FALSE],
     [PlainLaunch EXCEPT !.wantCmd = FALSE],
     [PlainLaunch EXCEPT !.kpOk = FALSE],
     [PlainLaunch EXCEPT !.ok = FALSE]}

\* A call with every wait-list, or with none.
NoWaitList == [n |-> 0, l |-> NULL]

WithWaitLists(all, varied) ==
    (all \X {NoWaitList}) \cup (varied \X WaitLists)

KernelLaunches ==
    WithWaitLists(KernelCalls,
                  {PlainLaunch, [PlainLaunch EXCEPT !.size = <<0, 0, 0>>],
                   [PlainLaunch EXCEPT !.wd = 2, !.size = <<2, 0, 0>>],
                   [PlainLaunch EXCEPT !.sameCtx = FALSE]})

\* Calls of the single-node appends: the outcome of the native call.
NodeAppends == WithWaitLists(BOOLEAN, {TRUE})

\* Calls of the fills: pattern width, null pattern, offset, size, and which
\* native call fails (0: none).
PlainFill == [P |-> 1, patNull |-> FALSE, off |-> 0, size |-> 8, failAt |-> 0]

FillCalls ==
    {PlainFill,
     [PlainFill EXCEPT !.patNull = TRUE],
     [PlainFill EXCEPT !.failAt = 1],
     [PlainFill EXCEPT !.P = 3],
     [PlainFill EXCEPT !.P = 8],
     [PlainFill EXCEPT !.P = 8, !.failAt = 3]}

Fills == WithWaitLists(FillCalls, {PlainFill, [PlainFill EXCEPT !.P = 8]})

\* Calls of append-buffer-copy: source offset, destination offset, size,
\* outcome of the native call.
CopyCalls == {<<0, 0, 4, TRUE>>, <<0, 0, 4, FALSE>>, <<4, 0, 4, TRUE>>, <<0, 4, 4, TRUE>>}

Copies == WithWaitLists(CopyCalls, {<<0, 0, 4, TRUE>>, <<4, 0, 4, TRUE>>})

(***************************************************************************)
(* Spec: recording on the command buffers.                                 *)
(***************************************************************************)
RecBufs == {1}

DoCreate ==
    \E b \in RecBufs, a \in BOOLEAN, g \in BOOLEAN : Create(b, TRUE, a, g)

DoKernelLaunch ==
    \E b \in RecBufs : CanAppend(b) /\ \E c \in KernelLaunches :
        AppendKernelLaunch(b, c[1].sameCtx, c[1].wd, Zero3, c[1].size, c[1].local,
                           c[2], c[1].wantSP, c[1].wantCmd, c[1].kpOk, c[1].ok, 0)

DoUSMMemcpy ==
    \E b \in RecBufs : CanAppend(b) /\ \E c \in NodeAppends :
        AppendUSMMemcpy(b, c[2], c[1])

DoMemBufferCopy ==
    \E b \in RecBufs : CanAppend(b) /\ \E c \in Copies :
        AppendMemBufferCopy(b, c[1][1], c[1][2], c[1][3], c[2], c[1][4])

DoMemBufferCopyRect ==
    \E b \in RecBufs : CanAppend(b) /\ \E c \in NodeAppends :
        AppendMemBufferCopyRect(b, c[2], c[1])

DoMemBufferWrite ==
    \E b \in RecBufs : CanAppend(b) /\ \E c \in NodeAppends :
        AppendMemBufferWrite(b, c[2], c[1])

DoMemBufferRead ==
    \E b \in RecBufs : CanAppend(b) /\ \E c \in NodeAppends :
        AppendMemBufferRead(b, c[2], c[1])

DoMemBufferWriteRect ==
    \E b \in RecBufs : CanAppend(b) /\ \E c \in NodeAppends :
        AppendMemBufferWriteRect(b, c[2], c[1])

DoMemBufferReadRect ==
    \E b \in RecBufs : CanAppend(b) /\ \E c \in NodeAppends :
        AppendMemBufferReadRect(b, c[2], c[1])

DoUSMPrefetch ==
    \E b \in RecBufs : CanAppend(b) /\ \E c \in NodeAppends :
        AppendUSMPrefetch(b, c[2], c[1])

DoUSMAdvise ==
    \E b \in RecBufs : CanAppend(b) /\ \E c \in NodeAppends :
        AppendUSMAdvise(b, c[2], c[1])

DoMemBufferFill ==
    \E b \in RecBufs : CanAppend(b) /\ \E c \in Fills :
        AppendMemBufferFill(b, c[1].patNull, c[1].P, c[1].off, c[1].size, c[2],
                            c[1].failAt, "crash")

DoUSMFill ==
    \E b \in RecBufs : CanAppend(b) /\ \E c \in Fills :
        AppendUSMFill(b, c[1].patNull, c[1].P, c[1].size, c[2], c[1].failAt)

Next ==
    \/ DoCreate \/ DoKernelLaunch \/ DoUSMMemcpy \/ DoMemBufferCopy
    \/ DoMemBufferCopyRect \/ DoMemBufferWrite \/ DoMemBufferRead
    \/ DoMemBufferWriteRect \/ DoMemBufferReadRect \/ DoUSMPrefetch \/ DoUSMAdvise
    \/ DoMemBufferFill \/ DoUSMFill

Spec == Init /\ [][Next]_vars

(***************************************************************************)
(* SpecTwo: recording on two command buffers, every call with its native   *)
(* calls succeeding.                                                       *)
(***************************************************************************)
TwoWaitLists == {NoWaitList, [n |-> 1, l |-> <<0>>], [n |-> 1, l |-> <<1>>]}

TwoCreate == \E b \in Bufs : Create(b, TRUE, TRUE, TRUE)

TwoKernelLaunch ==
    \E b \in Bufs : CanAppend(b) /\ \E wl \in TwoWaitLists :
        AppendKernelLaunch(b, TRUE, 1, Zero3, <<2, 0, 0>>, NULL, wl, TRUE, TRUE,
                           TRUE, TRUE, 0)

TwoUSMMemcpy ==
    \E b \in Bufs : CanAppend(b) /\ \E wl \in TwoWaitLists : AppendUSMMemcpy(b, wl, TRUE)

TwoMemBufferCopy ==
    \E b \in Bufs : CanAppend(b) /\ \E wl \in TwoWaitLists :
        AppendMemBufferCopy(b, 0, 0, 4, wl, TRUE)

TwoMemBufferCopyRect ==
    \E b \in Bufs : CanAppend(b) /\ \E wl \in TwoWaitLists :
        AppendMemBufferCopyRect(b, wl, TRUE)

TwoMemBufferWrite ==
    \E b \in Bufs : CanAppend(b) /\ \E wl \in TwoWaitLists :
        AppendMemBufferWrite(b, wl, TRUE)

TwoMemBufferRead ==
    \E b \in Bufs : CanAppend(b) /\ \E wl \in TwoWaitLists :
        AppendMemBufferRead(b, wl, TRUE)

TwoMemBufferWriteRect ==
    \E b \in Bufs : CanAppend(b) /\ \E wl \in TwoWaitLists :
        AppendMemBufferWriteRect(b, wl, TRUE)

TwoMemBufferReadRect ==
    \E b \in Bufs : CanAppend(b) /\ \E wl \in TwoWaitLists :
        AppendMemBufferReadRect(b, wl, TRUE)

TwoUSMPrefetch ==
    \E b \in Bufs : CanAppend(b) /\ \E wl \in TwoWaitLists : AppendUSMPrefetch(b, wl, TRUE)

TwoUSMAdvise ==
    \E b \in Bufs : CanAppend(b) /\ \E wl \in TwoWaitLists : AppendUSMAdvise(b, wl, TRUE)

TwoMemBufferFill ==
    \E b \in Bufs : CanAppend(b) /\ \E wl \in TwoWaitLists :
        AppendMemBufferFill(b, FALSE, 1, 0, 8, wl, 0, "crash")

TwoUSMFill ==
    \E b \in Bufs : CanAppend(b) /\ \E wl \in TwoWaitLists :
        AppendUSMFill(b, FALSE, 1, 8, wl, 0)

NextTwo ==
    \/ TwoCreate \/ TwoKernelLaunch \/ TwoUSMMemcpy \/ TwoMemBufferCopy
    \/ TwoMemBufferCopyRect \/ TwoMemBufferWrite \/ TwoMemBufferRead
    \/ TwoMemBufferWriteRect \/ TwoMemBufferReadRect \/ TwoUSMPrefetch
    \/ TwoUSMAdvise \/ TwoMemBufferFill \/ TwoUSMFill

SpecTwo == Init /\ [][NextTwo]_vars

(***************************************************************************)
(* SpecLife: reference counting of one command buffer and its command      *)
(* handles, with launches of its graph in flight.                          *)
(***************************************************************************)
LifeCreate == Create(1, TRUE, TRUE, TRUE)

LifeKernelLaunch ==
    CanAppend(1) /\ \E wantCmd \in BOOLEAN :
        AppendKernelLaunch(1, TRUE, 1, Zero3, <<2, 0, 0>>, NULL, NoWaitList, TRUE,
                           wantCmd, TRUE, TRUE, 0)

LifeFinalize == Finalize(1, TRUE)

LifeEnqueue == Enqueue(1, FALSE, TRUE, TRUE, TRUE, TRUE)

LifeComplete == Complete(1)

LifeRetain == Retain(1)

LifeRelease == Release(1)

LifeRetainCommand == \E c \in 1..Len(cmds) : RetainCommand(c)

LifeReleaseCommand == \E c \in 1..Len(cmds) : ReleaseCommand(c)

NextLife ==
    \/ LifeCreate \/ LifeKernelLaunch \/ LifeFinalize \/ LifeEnqueue
    \/ LifeComplete \/ LifeRetain \/ LifeRelease \/ LifeRetainCommand
    \/ LifeReleaseCommand

SpecLife == Init /\ [][NextLife]_vars

(***************************************************************************)
(* SpecUpdate: one command buffer, recorded, finalized, updated, enqueued. *)
(* Appends are made while the buffer is recording.                         *)
(***************************************************************************)
Recording(b) == ~cb[b].HIPGraphExec.live

\* Launches appended: work dimension, global size, local size (or none).
UpdLaunches ==
    {[wd |-> 1, size |-> <<2, 0, 0>>, local |-> NULL],
     [wd |-> 2, size |-> <<2, 4, 0>>, local |-> <<1, 2, 0>>]}

JunkValues == {0, 3}

MaxCommands == 1    \* commands appended in SpecUpdate

NoUpdate == NoCall.u

\* Update descriptors: any subset of the geometry fields, or one argument
\* patch of each kind.
GeometryUpdates ==
    {[NoUpdate EXCEPT !.newWorkDim = 4],
     [NoUpdate EXCEPT !.pSize = <<4, 4, 4>>],
     [NoUpdate EXCEPT !.pLocal = <<2, 2, 2>>],
     [NoUpdate EXCEPT !.newWorkDim = 2, !.pOff = <<1, 1, 1>>, !.pSize = <<4, 4, 4>>,
                      !.pLocal = <<2, 2, 2>>]}

ArgUpdates ==
    {[NoUpdate EXCEPT !.ptrArgs = <<[argIndex |-> 0, val |-> 5, ok |-> TRUE]>>,
                      !.memArgs = <<[argIndex |-> 1, val |-> 1, ok |-> ok]>>,
                      !.valArgs = <<[argIndex |-> 0, val |-> 7, ok |-> TRUE]>>,
                      !.pSize = <<4, 4, 4>>] : ok \in BOOLEAN}

Updates == GeometryUpdates \cup ArgUpdates

\* Outcomes of the launch-parameter computation and of the native patch.
UpdOutcomes == {<<TRUE, TRUE>>, <<FALSE, TRUE>>, <<TRUE, FALSE>>}

UpdCreate == \E u \in BOOLEAN : Create(1, u, TRUE, TRUE)

UpdKernelLaunch ==
    CanAppend(1) /\ Recording(1) /\ Len(cmds) < MaxCommands
    /\ \E g \in UpdLaunches, junk \in JunkValues :
        AppendKernelLaunch(1, TRUE, g.wd, Zero3, g.size, g.local, NoWaitList, TRUE,
                           TRUE, TRUE, TRUE, junk)

UpdFinalize == \E ok \in BOOLEAN : Finalize(1, ok)

UpdUpdate ==
    \E c \in 1..Len(cmds) : HeldCommand(c) /\ \E u \in Updates, ok \in UpdOutcomes :
        Update(c, u, ok[1], ok[2])

UpdEnqueue == Enqueue(1, FALSE, TRUE, TRUE, TRUE, TRUE)

NextUpdate == UpdCreate \/ UpdKernelLaunch \/ UpdFinalize \/ UpdUpdate \/ UpdEnqueue

SpecUpdate == Init /\ [][NextUpdate]_vars

(***************************************************************************)
(* SpecFill: the two fills on one command buffer, over pattern widths,     *)
(* offsets and sizes that are and are not multiples of the width, and over *)
(* the native call that fails.                                             *)
(***************************************************************************)
\* Calls of the fills: PlainFill with the pattern width, the offset, the
\* size, the failing native call or the outcome of a division by zero
\* changed.
WideFill == [PlainFill EXCEPT !.P = 8]

FillVariants ==
    {PlainFill, WideFill,
     [PlainFill EXCEPT !.P = 2],
     [PlainFill EXCEPT !.P = 3],
     [PlainFill EXCEPT !.P = 4],
     [PlainFill EXCEPT !.P = 16, !.size = 16],
     [WideFill EXCEPT !.off = 8, !.size = 16],
     [PlainFill EXCEPT !.P = 4, !.off = 2],
     [PlainFill EXCEPT !.P = 4, !.size = 6],
     [PlainFill EXCEPT !.P = 4, !.off = 2, !.size = 6],
     [PlainFill EXCEPT !.P = 0],
     [PlainFill EXCEPT !.patNull = TRUE],
     [PlainFill EXCEPT !.failAt = 1],
     [WideFill EXCEPT !.failAt = 1],
     [WideFill EXCEPT !.failAt = 3],
     [WideFill EXCEPT !.failAt = 5]}

DivZeroOutcomes == {"crash", "true", "false"}

WideFills ==
    WithWaitLists(FillVariants, {PlainFill, WideFill, [PlainFill EXCEPT !.P = 3]})

FillCreate == Create(1, TRUE, TRUE, TRUE)

FillMemBufferFill ==
    CanAppend(1) /\ \E c \in WideFills :
        \E d \in IF c[1].P = 0 THEN DivZeroOutcomes ELSE {"crash"} :
            AppendMemBufferFill(1, c[1].patNull, c[1].P, c[1].off, c[1].size, c[2],
                                c[1].failAt, d)

FillUSMFill ==
    CanAppend(1) /\ \E c \in WideFills :
        AppendUSMFill(1, c[1].patNull, c[1].P, c[1].size, c[2], c[1].failAt)

NextFill == FillCreate \/ FillMemBufferFill \/ FillUSMFill

SpecFill == Init /\ [][NextFill]_vars

(***************************************************************************)
(* SpecRun: one command buffer that is recorded, finalized and enqueued in *)
(* any order, every native call of Finalize and Enqueue succeeding or      *)
(* failing.                                                                *)
(***************************************************************************)
RunCreate == Create(1, TRUE, TRUE, TRUE)

RunUSMMemcpy ==
    CanAppend(1) /\ \E c \in NodeAppends : AppendUSMMemcpy(1, c[2], c[1])

RunFinalize == \E ok \in BOOLEAN : Finalize(1, ok)

RunEnqueue ==
    \E wantEvent, waitOk, startOk, launchOk, recordOk \in BOOLEAN :
        Enqueue(1, wantEvent, waitOk, startOk, launchOk, recordOk)

NextRun == RunCreate \/ RunUSMMemcpy \/ RunFinalize \/ RunEnqueue

SpecRun == Init /\ [][NextRun]_vars

(***************************************************************************)
(* SpecPatch: Update with lists of argument patches, any one of which may  *)
(* fail, on a finalized buffer with one kernel command.                    *)
(***************************************************************************)
ArgDesc(argIndex, val) == [argIndex |-> argIndex, val |-> val, ok |-> TRUE]

\* An update of both kernel arguments through all three lists and of the
\* global size; the lists overlap, so the order of the patches shows in the
\* arguments left.
FullUpdate ==
    [NoUpdate EXCEPT !.ptrArgs = <<ArgDesc(0, 5), ArgDesc(1, 6)>>,
                     !.memArgs = <<ArgDesc(0, 1)>>,
                     !.valArgs = <<ArgDesc(1, 7)>>,
                     !.pSize = <<4, 4, 4>>]

PatchUpdates ==
    {FullUpdate,
     [FullUpdate EXCEPT !.ptrArgs[1].ok = FALSE],
     [FullUpdate EXCEPT !.ptrArgs[2].ok = FALSE],
     [FullUpdate EXCEPT !.memArgs[1].ok = FALSE],
     [FullUpdate EXCEPT !.valArgs[1].ok = FALSE],
     [FullUpdate EXCEPT !.newWorkDim = 4],
     [NoUpdate EXCEPT !.newWorkDim = 1],
     [NoUpdate EXCEPT !.memArgs = <<ArgDesc(1, 0), ArgDesc(0, 2)>>,
                      !.valArgs = <<ArgDesc(0, 8), [ArgDesc(1, 9) EXCEPT !.ok = FALSE]>>,
                      !.pLocal = <<2, 2, 2>>]}

PatchCreate == \E u \in BOOLEAN : Create(1, u, TRUE, TRUE)

PatchKernelLaunch ==
    CanAppend(1) /\ Recording(1) /\ Len(cmds) < MaxCommands
    /\ \E g \in UpdLaunches :
        AppendKernelLaunch(1, TRUE, g.wd, Zero3, g.size, g.local, NoWaitList, TRUE,
                           TRUE, TRUE, TRUE, 0)

PatchFinalize == \E ok \in BOOLEAN : Finalize(1, ok)

PatchUpdate ==
    \E c \in 1..Len(cmds) : HeldCommand(c) /\ \E u \in PatchUpdates, ok \in UpdOutcomes :
        Update(c, u, ok[1], ok[2])

NextPatch == PatchCreate \/ PatchKernelLaunch \/ PatchFinalize \/ PatchUpdate

SpecPatch == Init /\ [][NextPatch]_vars

(***************************************************************************)
(* SpecThreads: a buffer and its command handles are set up while no       *)
(* thread is inside a call, then the threads that own external references *)
(* call Release and ReleaseCommand, their steps interleaved in every way.  *)
(***************************************************************************)
ThrCreate == Quiet /\ Create(1, TRUE, TRUE, TRUE)

ThrKernelLaunch ==
    Quiet /\ CanAppend(1) /\ Len(cmds) < MaxCommands
    /\ AppendKernelLaunch(1, TRUE, 1, Zero3, <<2, 0, 0>>, NULL, NoWaitList, TRUE,
                          TRUE, TRUE, TRUE, 0)

ThrRetain == Quiet /\ Retain(1)

ThrRetainCommand == Quiet /\ \E c \in 1..Len(cmds) : RetainCommand(c)

ThrBeginRelease == \E t \in ThreadIds : BeginRelease(t, 1)

ThrBeginReleaseCommand ==
    \E t \in ThreadIds, c \in 1..Len(cmds) : BeginReleaseCommand(t, c)

ThrDecExt == \E t \in ThreadIds : StepDecExt(t)

ThrLoop == \E t \in ThreadIds : StepLoop(t)

ThrCmdDecExt == \E t \in ThreadIds : StepCmdDecExt(t)

ThrCmdDec == \E t \in ThreadIds : StepCmdDec(t)

ThrCmdBufDec == \E t \in ThreadIds : StepCmdBufDec(t)

ThrBufDec == \E t \in ThreadIds : StepBufDec(t)

ThrBufDelete == \E t \in ThreadIds : StepBufDelete(t)

ThrCmdDelete == \E t \in ThreadIds : StepCmdDelete(t)

NextThreads ==
    \/ ThrCreate \/ ThrKernelLaunch \/ ThrRetain \/ ThrRetainCommand
    \/ ThrBeginRelease \/ ThrBeginReleaseCommand \/ ThrDecExt \/ ThrLoop
    \/ ThrCmdDecExt \/ ThrCmdDec \/ ThrCmdBufDec \/ ThrBufDec \/ ThrBufDelete
    \/ ThrCmdDelete

SpecThreads == Init /\ [][NextThreads]_vars

(***************************************************************************)
(* SpecCompile: one command buffer that is recorded, finalized more than   *)
(* once, retained and released.                                            *)
(***************************************************************************)
MaxCompiles == 2

CompCreate == \E u \in BOOLEAN : Create(1, u, TRUE, TRUE)

CompUSMMemcpy ==
    CanAppend(1) /\ \E c \in NodeAppends : AppendUSMMemcpy(1, c[2], c[1])

CompFinalize == \E ok \in BOOLEAN : FinalizeWithin(1, ok, MaxCompiles)

CompRetain == Retain(1)

CompRelease == Release(1)

NextCompile == CompCreate \/ CompUSMMemcpy \/ CompFinalize \/ CompRetain \/ CompRelease

SpecCompile == Init /\ [][NextCompile]_vars

(***************************************************************************)
(* SpecLocal: a kernel that is given a local-memory size before its launch *)
(* is appended to an updatable buffer, which is then finalized, updated    *)
(* and enqueued.                                                           *)
(***************************************************************************)
\* The local-memory sizes a kernel is given.
LocalSizes == {0, 8, 16}

\* The kernel object's local size is set (setting a local-memory argument).
SetKernelLocalSize(size) ==
    /\ Running
    /\ kernel' = [kernel EXCEPT !.localSize = size]
    /\ last' = [NoCall EXCEPT !.op = "SetKernelLocalSize"]
    /\ UNCHANGED <<cb, cmds, issued, noWait, inflight, launches, calls, thr>>

LocalUpdates == {NoUpdate, [NoUpdate EXCEPT !.pSize = <<4, 4, 4>>]}

LocalCreate == Create(1, TRUE, TRUE, TRUE)

LocalSetLocalSize == \E size \in LocalSizes : SetKernelLocalSize(size)

LocalKernelLaunch ==
    CanAppend(1) /\ Recording(1) /\ Len(cmds) < MaxCommands
    /\ \E g \in UpdLaunches :
        AppendKernelLaunch(1, TRUE, g.wd, Zero3, g.size, g.local, NoWaitList, TRUE,
                           TRUE, TRUE, TRUE, 0)

LocalFinalize == Finalize(1, TRUE)

LocalUpdate ==
    \E c \in 1..Len(cmds) : HeldCommand(c) /\ \E u \in LocalUpdates, ok \in UpdOutcomes :
        Update(c, u, ok[1], ok[2])

NextLocal ==
    LocalCreate \/ LocalSetLocalSize \/ LocalKernelLaunch \/ LocalFinalize \/ LocalUpdate

SpecLocal == Init /\ [][NextLocal]_vars

(***************************************************************************)
(* SpecWrap: append-buffer-copy with offsets and sizes over the whole      *)
(* range of the machine word.                                              *)
(***************************************************************************)
\* Offsets and sizes: small ones and the largest of the word.
WordValues == {0, 2, MemSize, WordModulus - 2, WordModulus - 1}

WrapCreate == Create(1, TRUE, TRUE, TRUE)

WrapMemBufferCopy ==
    CanAppend(1)
    /\ \E srcOffset \in WordValues, dstOffset \in WordValues, size \in WordValues :
        \E nativeOk \in BOOLEAN :
            AppendMemBufferCopy(1, srcOffset, dstOffset, size, NoWaitList, nativeOk)

NextWrap == WrapCreate \/ WrapMemBufferCopy

SpecWrap == Init /\ [][NextWrap]_vars

(***************************************************************************)
(* Properties.                                                             *)
(***************************************************************************)
AppendOps ==
    {"KernelLaunch", "USMMemcpy", "MemBufferCopy", "MemBufferCopyRect",
     "MemBufferWrite", "MemBufferRead", "MemBufferWriteRect", "MemBufferReadRect",
     "USMPrefetch", "USMAdvise", "MemBufferFill", "USMFill"}

\* The node the sync point written by the last call names.
LastNode == cb[last.b].SyncPoints[last.sp]

\* C1: on a buffer whose successful appends passed no wait-list, the sync
\* points handed out are 0, 1, ..., N-1 in call order and resolve to
\* distinct graph nodes.
C1_SyncPointsDense ==
    \A b \in Bufs : (cb[b].st = "alive" /\ noWait[b]) =>
        /\ \A i \in 1..Len(issued[b]) : issued[b][i] = i - 1
        /\ \A i, j \in 1..Len(issued[b]) :
              i # j => cb[b].SyncPoints[issued[b][i]] # cb[b].SyncPoints[issued[b][j]]

C3_ForeignIdInvalidValue ==
    (last.op \in AppendOps /\ "foreignId" \in last.flags) => last.rc = "INVALID_VALUE"

\* C4: Update on a command whose buffer has no executable graph, or whose
\* buffer was created non-updatable, returns INVALID_OPERATION and leaves the
\* command's cached work dimension, global offset, global size and local
\* size as they were.
C4_UpdateNeedsFinalizedUpdatable ==
    [][(/\ last'.op = "Update"
        /\ cb[last'.b].st = "alive"
        /\ ~cb[last'.b].HIPGraphExec.live \/ ~cb[last'.b].IsUpdatable) =>
          /\ last'.rc = "INVALID_OPERATION"
          /\ cmds'[last'.cmd].WorkDim = cmds[last'.cmd].WorkDim
          /\ cmds'[last'.cmd].GlobalWorkOffset = cmds[last'.cmd].GlobalWorkOffset
          /\ cmds'[last'.cmd].GlobalWorkSize = cmds[last'.cmd].GlobalWorkSize
          /\ cmds'[last'.cmd].LocalWorkSize = cmds[last'.cmd].LocalWorkSize]_vars

\* Update with a new geometry was refused on a finalized buffer that is not
\* updatable.
C4_Witness ==
    /\ last.op = "Update" /\ last.rc = "INVALID_OPERATION"
    /\ last.u.pSize # NULL
    /\ cb[last.b].HIPGraphExec.live /\ ~cb[last.b].IsUpdatable

\* C5: a successful append-kernel-launch whose global size is 0 along some
\* dimension makes no command handle, and registers exactly one new sync
\* point, naming a no-op node.
C5_ZeroSizeAnyDimensionIsNoOp ==
    (last.op = "KernelLaunch" /\ "zeroDim" \in last.flags /\ last.rc = "SUCCESS") =>
        /\ last.cmd = 0
        /\ last.sp = cb[last.b].NextSyncPoint - 1
        /\ cb[last.b].HIPGraph[LastNode].kind = "empty"
        /\ \A c \in 1..Len(cmds) :
              ~(cmds[c].CommandBuffer = last.b /\ cmds[c].Node = LastNode)

\* The buffer has never had a command handle.
NoCommandHandles(b) == \A c \in 1..Len(cmds) : cmds[c].CommandBuffer # b

\* C6: a created buffer without command handles, retained N times, is alive
\* as long as at most N releases were made and is destroyed by release N+1;
\* and no buffer is destroyed while a caller still holds it.
C6_ReleaseAfterRetains ==
    \A b \in Bufs :
        /\ (cb[b].st \in {"alive", "dead"} /\ NoCommandHandles(b)) =>
              /\ calls[b].release <= calls[b].retain => cb[b].st = "alive"
              /\ calls[b].release = calls[b].retain + 1 => cb[b].st = "dead"
              /\ calls[b].release <= calls[b].retain + 1
        /\ cb[b].st = "alive" =>
              cb[b].RefCountExternal = 1 + calls[b].retain - calls[b].release
        /\ cb[b].st = "dead" => calls[b].release = calls[b].retain + 1

\* A buffer without command handles, retained at least once, was destroyed
\* by its last release.
C6_Witness ==
    /\ NoCommandHandles(1)
    /\ calls[1].retain >= 1 /\ calls[1].release = calls[1].retain + 1
    /\ cb[1].st = "dead" /\ last.op = "Release" /\ last.rc = "SUCCESS"

\* C7: while a caller holds a command handle, the handle's buffer is not
\* destroyed and the buffer's internal count is above zero, whatever the
\* buffer's external count.
C7_HeldCommandKeepsBuffer ==
    \A c \in 1..Len(cmds) : HeldCommand(c) =>
        /\ cb[cmds[c].CommandBuffer].st = "alive"
        /\ cb[cmds[c].CommandBuffer].RefCountInternal > 0

\* A command handle is held after its buffer's external count reached zero.
C7_Witness ==
    \E c \in 1..Len(cmds) :
        /\ HeldCommand(c)
        /\ cb[cmds[c].CommandBuffer].RefCountExternal = 0
        /\ cb[cmds[c].CommandBuffer].st = "alive"

\* C8: while a launch of the buffer's executable graph is in flight, the
\* buffer and its executable graph are not destroyed.
C8_InFlightKeepsBuffer ==
    \A b \in Bufs : inflight[b] > 0 =>
        (cb[b].st = "alive" /\ cb[b].execsDestroyed = 0)

\* The block and grid a command's cached geometry stands for.
GeometryParams(C) ==
    setKernelParams(C.WorkDim, C.GlobalWorkSize,
                    IF C.LocalWorkSize # Zero3 THEN C.LocalWorkSize ELSE NULL, TRUE)

\* The launch sees node n with the block and grid of command C's geometry.
LaunchedWith(snapshot, C) ==
    /\ C.Node \in DOMAIN snapshot
    /\ GeometryParams(C).rc = "SUCCESS"
    /\ snapshot[C.Node].gridDim = GeometryParams(C).BlocksPerGrid
    /\ snapshot[C.Node].blockDim = GeometryParams(C).ThreadsPerBlock

\* C9: a launch of the executable graph that follows a successful Update of
\* a command runs the command's node with the updated geometry, with no
\* Finalize in between; a launch of a buffer finalized once runs the node of
\* a command that was never updated with the geometry it was appended with.
C9_EnqueueAfterUpdate ==
    [][\A b \in Bufs : launches'[b] # launches[b] =>
          \A c \in 1..Len(cmds) :
              (cmds[c].st = "alive" /\ cmds[c].CommandBuffer = b) =>
                  /\ (last.op = "Update" /\ last.cmd = c /\ last.rc = "SUCCESS") =>
                        LaunchedWith(launches'[b][Len(launches'[b])], cmds[c])
                  /\ (~cmds[c].touched /\ cb[b].execsCreated = 1) =>
                        LaunchedWith(launches'[b][Len(launches'[b])], cmds[c])]_vars

\* Two launches of a buffer finalized once, the second right after an Update
\* with a new global size, ran the kernel node with different grids.
C9_Witness ==
    /\ last.op = "Enqueue" /\ cb[1].execsCreated = 1
    /\ Len(launches[1]) >= 2 /\ Len(cmds) >= 1
    /\ launches[1][1][cmds[1].Node].gridDim # launches[1][2][cmds[1].Node].gridDim
    /\ LaunchedWith(launches[1][2], cmds[1])
    /\ cmds[1].touched

\* C10: after a successful Update the command's work dimension is the new
\* one unless 0 was given, and each of global offset, global size and local
\* size holds the supplied values along the work dimensions if it was
\* supplied and is as it was before if it was omitted.
C10_UpdateMergesGeometry ==
    [][(last'.op = "Update" /\ last'.rc = "SUCCESS") =>
          /\ cmds'[last'.cmd].WorkDim =
                IF last'.u.newWorkDim # 0 THEN last'.u.newWorkDim
                ELSE cmds[last'.cmd].WorkDim
          /\ IF last'.u.pOff # NULL
             THEN \A i \in 1..cmds'[last'.cmd].WorkDim :
                      cmds'[last'.cmd].GlobalWorkOffset[i] = last'.u.pOff[i]
             ELSE cmds'[last'.cmd].GlobalWorkOffset = cmds[last'.cmd].GlobalWorkOffset
          /\ IF last'.u.pSize # NULL
             THEN \A i \in 1..cmds'[last'.cmd].WorkDim :
                      cmds'[last'.cmd].GlobalWorkSize[i] = last'.u.pSize[i]
             ELSE cmds'[last'.cmd].GlobalWorkSize = cmds[last'.cmd].GlobalWorkSize
          /\ IF last'.u.pLocal # NULL
             THEN \A i \in 1..cmds'[last'.cmd].WorkDim :
                      cmds'[last'.cmd].LocalWorkSize[i] = last'.u.pLocal[i]
             ELSE cmds'[last'.cmd].LocalWorkSize = cmds[last'.cmd].LocalWorkSize]_vars

\* A successful Update gave a new global size and omitted the local size of
\* a command that was appended with one.
C10_Witness ==
    /\ last.op = "Update" /\ last.rc = "SUCCESS"
    /\ last.u.pSize # NULL /\ last.u.pLocal = NULL /\ last.u.pOff = NULL
    /\ cmds[last.cmd].GlobalWorkSize[1] = last.u.pSize[1]
    /\ cmds[last.cmd].LocalWorkSize # Zero3

FillOps == {"MemBufferFill", "USMFill"}

\* C11: a buffer fill or USM fill whose pattern width is not a positive
\* power of two returns INVALID_SIZE and leaves the graph and the sync-point
\* registry as they were, for every offset and size.
C11_BadPatternWidthInvalidSize ==
    [][(last'.op \in FillOps /\ ~IsPowerOfTwo(last'.fill.P)) =>
          (last'.rc = "INVALID_SIZE" /\ cb' = cb)]_vars

\* C12: a fill that is accepted has a size and an offset that are both
\* multiples of the pattern width; a fill rejected for its size or offset
\* leaves the buffer as it was.
C12_FillNeedsMultiples ==
    [][last'.op \in FillOps =>
          /\ (Succeeded(last'.rc) \/ cb' # cb) =>
                 /\ last'.fill.size % last'.fill.P = 0
                 /\ last'.fill.offset % last'.fill.P = 0
          /\ (/\ IsPowerOfTwo(last'.fill.P)
              /\ last'.fill.size % last'.fill.P # 0
                     \/ last'.fill.offset % last'.fill.P # 0) => cb' = cb]_vars

\* C13 (as stated): an append-buffer-copy whose sums of offset and size fit
\* the machine word and whose source or destination
\* offset plus size exceeds the buffer's allocated size returns INVALID_SIZE
\* and leaves the graph and the sync-point registry as they were.
C13_CopyOutOfBoundsInvalidSize ==
    [][(/\ last'.op = "MemBufferCopy" /\ "invalidParam" \in last'.flags
        /\ "wraps" \notin last'.flags) =>
          (last'.rc = "INVALID_SIZE" /\ cb' = cb)]_vars

\* C13 (amended): an append-buffer-copy whose sums of offset and size fit
\* the machine word and whose source or destination offset
\* plus size exceeds the buffer's allocated size fails and leaves the graph
\* and the sync-point registry as they were; the error is INVALID_SIZE
\* unless the wait-list is a null pointer with a count above zero, whose
\* check comes first.
C13_CopyOutOfBoundsRejected ==
    [][(/\ last'.op = "MemBufferCopy" /\ "invalidParam" \in last'.flags
        /\ "wraps" \notin last'.flags) =>
          /\ ~Succeeded(last'.rc)
          /\ cb' = cb /\ cmds' = cmds
          /\ "nullWaitList" \notin last'.flags => last'.rc = "INVALID_SIZE"]_vars

\* A copy out of bounds, with a wait-list of a sync point the buffer holds,
\* was rejected for its size on a buffer that holds a node.
C13_Witness ==
    /\ last.op = "MemBufferCopy" /\ "invalidParam" \in last.flags
    /\ "waitList" \in last.flags /\ "unknownId" \notin last.flags
    /\ last.rc = "INVALID_SIZE"
    /\ Len(cb[last.b].HIPGraph) > 0

\* The nodes the sync points of a wait-list resolve to in buffer B, in order.
NodesOf(B, wl) == [i \in 1..wl.n |-> B.SyncPoints[wl.l[i]]]

\* C14: append-prefetch and append-advise with a wait-list that resolves add
\* exactly one no-op node depending on the wait-list's nodes, register it
\* under a sync point the registry did not hold, and return
\* ADAPTER_SPECIFIC; the only other outcome is the error of the native
\* add-node call, which leaves the buffer as it was.
C14_HintsAreNoOpNodes ==
    [][(/\ last'.op \in {"USMPrefetch", "USMAdvise"}
        /\ "nullWaitList" \notin last'.flags /\ "unknownId" \notin last'.flags) =>
          \/ last'.rc = "NATIVE_ERROR" /\ cb' = cb
          \/ /\ last'.rc = "ADAPTER_SPECIFIC"
             /\ Len(cb'[last'.b].HIPGraph) = Len(cb[last'.b].HIPGraph) + 1
             /\ SubSeq(cb'[last'.b].HIPGraph, 1, Len(cb[last'.b].HIPGraph))
                    = cb[last'.b].HIPGraph
             /\ cb'[last'.b].HIPGraph[Len(cb'[last'.b].HIPGraph)].kind = "empty"
             /\ cb'[last'.b].HIPGraph[Len(cb'[last'.b].HIPGraph)].deps
                    = NodesOf(cb[last'.b], last'.wl)
             /\ last'.sp \notin DOMAIN cb[last'.b].SyncPoints
             /\ DOMAIN cb'[last'.b].SyncPoints
                    = DOMAIN cb[last'.b].SyncPoints \cup {last'.sp}
             /\ cb'[last'.b].SyncPoints[last'.sp] = Len(cb'[last'.b].HIPGraph)
             /\ \A sp \in DOMAIN cb[last'.b].SyncPoints :
                    cb'[last'.b].SyncPoints[sp] = cb[last'.b].SyncPoints[sp]]_vars

\* An advise was appended after the no-op node that sync point 0 names and
\* depends on it.
C14_Witness ==
    /\ last.op = "USMAdvise" /\ last.rc = "ADAPTER_SPECIFIC"
    /\ last.wl.l = <<0>> /\ last.sp = 1
    /\ cb[last.b].HIPGraph[cb[last.b].SyncPoints[0]].kind = "empty"
    /\ cb[last.b].HIPGraph[LastNode].kind = "empty"
    /\ cb[last.b].HIPGraph[LastNode].deps = <<cb[last.b].SyncPoints[0]>>

\* C15: a successful fill with pattern width P above 4 adds one memset node
\* of element size 4 that depends on the wait-list's nodes, then exactly
\* P - 4 memset nodes of element size 1, each depending only on the node
\* added just before it, and the sync point it returns names the last node.
C15_WideFillIsChain ==
    [][(last'.op \in FillOps /\ last'.rc = "SUCCESS" /\ last'.fill.P > 4) =>
          LET G  == cb[last'.b].HIPGraph
              G1 == cb'[last'.b].HIPGraph
              n0 == Len(G)
          IN  /\ Len(G1) = n0 + 1 + (last'.fill.P - 4)
              /\ SubSeq(G1, 1, n0) = G
              /\ G1[n0 + 1].kind = "memset"
              /\ G1[n0 + 1].p.elementSize = 4
              /\ G1[n0 + 1].deps = NodesOf(cb[last'.b], last'.wl)
              /\ \A k \in 1..(last'.fill.P - 4) :
                     /\ G1[n0 + 1 + k].kind = "memset"
                     /\ G1[n0 + 1 + k].p.elementSize = 1
                     /\ G1[n0 + 1 + k].deps = <<n0 + k>>
              /\ cb'[last'.b].SyncPoints[last'.sp] = Len(G1)]_vars

\* A fill of pattern width 8 with a wait-list of one sync point added its
\* five nodes after the node the sync point names.
C15_Witness ==
    /\ last.op \in FillOps /\ last.rc = "SUCCESS" /\ last.fill.P = 8
    /\ last.wl.n = 1
    /\ LastNode = Len(cb[last.b].HIPGraph)
    /\ cb[last.b].HIPGraph[LastNode - 4].deps = <<cb[last.b].SyncPoints[last.wl.l[1]]>>
    /\ cb[last.b].HIPGraph[LastNode].deps = <<LastNode - 1>>

\* C16: once the buffer has an executable graph, no node is added to its
\* graph and no sync point is added to its registry.
C16_FinalizeIsTerminal ==
    [][\A b \in Bufs : (cb[b].st = "alive" /\ cb[b].HIPGraphExec.live) =>
          /\ cb'[b].HIPGraph = cb[b].HIPGraph
          /\ cb'[b].SyncPoints = cb[b].SyncPoints]_vars

\* The stream operations of a whole Enqueue call, in order.
EnqueueOrder(wantEvent) ==
    IF wantEvent THEN <<"wait", "start", "launch", "record">> ELSE <<"wait", "launch">>

IsPrefix(s, t) == Len(s) <= Len(t) /\ s = SubSeq(t, 1, Len(s))

\* C17: the operations an Enqueue call puts on the stream are, in order, the
\* event wait-list, the event's start if an event was asked for, the graph
\* launch, and the event's record if an event was asked for, up to the first
\* one that fails; the graph is launched only after the wait-list went in;
\* and an event is handed back only if one was asked for and the launch and
\* the record went in.
C17_EnqueueOrder ==
    [][last'.op = "Enqueue" =>
          /\ IsPrefix(last'.steps, EnqueueOrder("wantEvent" \in last'.flags))
          /\ (last'.rc = "SUCCESS") =
                 (last'.steps = EnqueueOrder("wantEvent" \in last'.flags))
          /\ (launches'[last'.b] # launches[last'.b]) =
                 (\E i \in 1..Len(last'.steps) : last'.steps[i] = "launch")
          /\ "waitFails" \in last'.flags =>
                 (last'.steps = <<>> /\ launches' = launches /\ last'.rc # "SUCCESS")
          /\ last'.event =>
                 /\ "wantEvent" \in last'.flags
                 /\ last'.steps = <<"wait", "start", "launch", "record">>
          /\ ("wantEvent" \in last'.flags /\ last'.rc = "SUCCESS") => last'.event]_vars

\* An Enqueue that asked for an event put the four operations on the
\* stream, launched the graph once and handed the event back.
C17_Witness ==
    /\ last.op = "Enqueue" /\ last.event
    /\ last.steps = <<"wait", "start", "launch", "record">>
    /\ Len(launches[last.b]) = 1

\* The argument patches of an update descriptor in the order pointer,
\* memory object, value, each with the value it stores.
PatchOrder(u) ==
    u.ptrArgs
    \o [i \in 1..Len(u.memArgs) |->
           [u.memArgs[i] EXCEPT !.val = IF @ = 0 THEN 0 ELSE DevicePtr(@)]]
    \o u.valArgs

\* The patches before the first one that fails.
Applied(list) ==
    IF \A i \in 1..Len(list) : list[i].ok THEN list
    ELSE SubSeq(list, 1, (CHOOSE i \in 1..Len(list) :
                             ~list[i].ok /\ \A j \in 1..(i - 1) : list[j].ok) - 1)

\* The kernel arguments after storing the first n patches of a list.
RECURSIVE ArgsAfter(_, _, _)
ArgsAfter(args, list, n) ==
    IF n = 0 THEN args
    ELSE [ArgsAfter(args, list, n - 1) EXCEPT ![list[n].argIndex + 1] = list[n].val]

\* C18: an Update that passes the finalized-and-updatable test stores the
\* argument patches in the order pointer, memory object, value, up to the
\* first one that fails; if one fails the call returns its error, later
\* patches are not stored, and the command's cached geometry and launch
\* parameters and the buffer with its executable graph are as before; if
\* none fails all are stored before the geometry is looked at, so that an
\* invalid new work dimension is reported with every patch stored.
C18_PatchOrderNoRollback ==
    [][(last'.op = "Update" /\ cb[last'.b].st = "alive"
        /\ ~UpdateNotAllowed(cb[last'.b])) =>
          LET all  == PatchOrder(last'.u)
              done == Applied(all)
          IN  /\ kernel'.args = ArgsAfter(kernel.args, done, Len(done))
              /\ Len(done) < Len(all) =>
                     /\ last'.rc = "INVALID_KERNEL_ARGS"
                     /\ cmds'[last'.cmd].WorkDim = cmds[last'.cmd].WorkDim
                     /\ cmds'[last'.cmd].GlobalWorkOffset = cmds[last'.cmd].GlobalWorkOffset
                     /\ cmds'[last'.cmd].GlobalWorkSize = cmds[last'.cmd].GlobalWorkSize
                     /\ cmds'[last'.cmd].LocalWorkSize = cmds[last'.cmd].LocalWorkSize
                     /\ cmds'[last'.cmd].Params = cmds[last'.cmd].Params
                     /\ cb' = cb
              /\ (Len(done) = Len(all) /\ last'.u.newWorkDim > 3) =>
                     last'.rc = "INVALID_WORK_DIMENSION"]_vars

\* An Update whose memory-object patch failed left the two pointer patches
\* before it in the kernel and stored no value patch.
C18_Witness ==
    /\ last.op = "Update" /\ last.rc = "INVALID_KERNEL_ARGS"
    /\ Len(last.u.ptrArgs) = 2 /\ ~last.u.memArgs[1].ok
    /\ kernel.args = <<5, 6>>
    /\ cb[last.b].HIPGraphExec.live

\* C19: every call returns a result code; no call ends with an exception
\* leaving the operation.
C19_NoExceptionEscapes == last.rc # "UNCAUGHT_EXCEPTION"

\* C20: an append that returns an error leaves the graph's nodes, the
\* sync-point registry and the command-handle list of its buffer as they
\* were before the call.
C20_AppendErrorLeavesGraph ==
    [][(last'.op \in AppendOps /\ ~Succeeded(last'.rc)) =>
          /\ cb'[last'.b].HIPGraph = cb[last'.b].HIPGraph
          /\ cb'[last'.b].SyncPoints = cb[last'.b].SyncPoints
          /\ cb'[last'.b].CommandHandles = cb[last'.b].CommandHandles]_vars

\* The command handles created against buffer b.
CommandsOf(b) == {c \in 1..Len(cmds) : cmds[c].CommandBuffer = b}

\* C21: once the buffer's external count is zero and every command handle
\* that was returned to a caller has external count zero, the buffer and
\* all command handles created against it are destroyed.
C21_AllReleasedAllDestroyed ==
    \A b \in Bufs :
        (/\ cb[b].st \in {"alive", "dead"}
         /\ cb[b].RefCountExternal = 0
         /\ \A c \in CommandsOf(b) : cmds[c].returned => cmds[c].RefCountExternal = 0) =>
            /\ cb[b].st = "dead"
            /\ \A c \in CommandsOf(b) : cmds[c].st = "dead"

\* C22: a live buffer's internal count is its external count plus the
\* number of its command handles not yet destroyed, and while its external
\* count is above zero no command handle in its list is destroyed.
C22_InternalCountInvariant ==
    \A b \in Bufs : cb[b].st = "alive" =>
        /\ cb[b].RefCountInternal =
              cb[b].RefCountExternal
                  + Cardinality({c \in CommandsOf(b) : cmds[c].st # "dead"})
        /\ cb[b].RefCountExternal > 0 =>
              \A i \in 1..Len(cb[b].CommandHandles) :
                  cmds[cb[b].CommandHandles[i]].st = "alive"

\* A buffer retained once holds two command handles, one of which its
\* caller has released.
C22_Witness ==
    /\ cb[1].st = "alive" /\ cb[1].RefCountExternal = 2
    /\ Len(cb[1].CommandHandles) = 2
    /\ \E c \in CommandsOf(1) : cmds[c].returned /\ cmds[c].RefCountExternal = 0
    /\ cb[1].RefCountInternal = 4

NoDuplicates(seq) == \A i, j \in 1..Len(seq) : i # j => seq[i] # seq[j]

\* C23: with threads releasing the external references they own
\* concurrently, no object is used after its delete, no buffer and no
\* command handle is deleted twice, no buffer's command handles are
\* force-released twice; they are force-released as soon as the external
\* count is zero, and once every reference to the buffer and to its command
\* handles is released and all calls have returned, the buffer and the
\* command handles are deleted.
C23_ConcurrentReleaseOnce ==
    /\ ~thr.uaf
    /\ NoDuplicates(thr.deletedBufs)
    /\ NoDuplicates(thr.deletedCmds)
    /\ NoDuplicates(thr.forced)
    /\ \A b \in Bufs :
          /\ (cb[b].st = "dead") = (b \in RangeOf(thr.deletedBufs))
          /\ (cb[b].st # "none" /\ cb[b].RefCountExternal = 0)
                 = (b \in RangeOf(thr.forced))
          /\ (/\ Quiet /\ cb[b].st # "none" /\ cb[b].RefCountExternal = 0
              /\ \A c \in CommandsOf(b) : cmds[c].RefCountExternal = 0) =>
                 /\ b \in RangeOf(thr.deletedBufs)
                 /\ \A c \in CommandsOf(b) : c \in RangeOf(thr.deletedCmds)
    /\ \A c \in 1..Len(cmds) :
          (cmds[c].st = "dead") = (c \in RangeOf(thr.deletedCmds))

\* Two threads are inside Release on the same buffer at once: one has
\* force-released a command handle down to zero and is about to delete it,
\* the other is about to take its internal reference away.
C23_Witness ==
    \E t, u \in ThreadIds :
        /\ thr.at[t].op = "Release" /\ thr.at[t].pc = "cmdDel"
        /\ thr.at[u].op = "Release" /\ thr.at[u].pc = "bufDec"
        /\ thr.at[t].b = thr.at[u].b

\* C24: in a live command handle the cached global offset, global size and
\* local size are zero at every index at or beyond the work dimension.
C24_UnusedDimensionsZero ==
    \A c \in 1..Len(cmds) : cmds[c].st = "alive" =>
        \A i \in 1..3 : i > cmds[c].WorkDim =>
            /\ cmds[c].GlobalWorkOffset[i] = 0
            /\ cmds[c].GlobalWorkSize[i] = 0
            /\ cmds[c].LocalWorkSize[i] = 0

\* Nodes and edges of a graph: the kind and the predecessors of every node.
Topology(G) == [n \in 1..Len(G) |-> [kind |-> G[n].kind, deps |-> G[n].deps]]

\* C25: an Update call, whatever it returns, leaves the buffer's graph, the
\* nodes and edges of its executable graph, its sync-point registry, its
\* command-handle list and its reference counts, and every command
\* handle's node and reference counts as they were before the call.
C25_UpdateKeepsTopology ==
    [][(last'.op = "Update" /\ cb[last'.b].st = "alive") =>
          /\ cb'[last'.b].HIPGraph = cb[last'.b].HIPGraph
          /\ cb'[last'.b].HIPGraphExec.live = cb[last'.b].HIPGraphExec.live
          /\ Topology(cb'[last'.b].HIPGraphExec.nodes)
                 = Topology(cb[last'.b].HIPGraphExec.nodes)
          /\ cb'[last'.b].SyncPoints = cb[last'.b].SyncPoints
          /\ cb'[last'.b].NextSyncPoint = cb[last'.b].NextSyncPoint
          /\ cb'[last'.b].CommandHandles = cb[last'.b].CommandHandles
          /\ cb'[last'.b].RefCountInternal = cb[last'.b].RefCountInternal
          /\ cb'[last'.b].RefCountExternal = cb[last'.b].RefCountExternal
          /\ Len(cmds') = Len(cmds)
          /\ \A c \in 1..Len(cmds) :
                 /\ cmds'[c].Node = cmds[c].Node
                 /\ cmds'[c].CommandBuffer = cmds[c].CommandBuffer
                 /\ cmds'[c].st = cmds[c].st
                 /\ cmds'[c].RefCountInternal = cmds[c].RefCountInternal
                 /\ cmds'[c].RefCountExternal = cmds[c].RefCountExternal]_vars

\* A successful Update has given the command's node in the executable
\* graph launch parameters other than those the node was appended with.
C25_Witness ==
    /\ last.op = "Update" /\ last.rc = "SUCCESS"
    /\ cb[last.b].HIPGraphExec.nodes[cmds[last.cmd].Node].p
          # cb[last.b].HIPGraph[cmds[last.cmd].Node].p
    /\ cb[last.b].HIPGraphExec.nodes[cmds[last.cmd].Node].p = cmds[last.cmd].Params

\* The grid and block dimensions that the geometry cached in a command
\* handle gives.
DerivedParams(C) ==
    setKernelParams(C.WorkDim, C.GlobalWorkSize,
                    IF \E i \in 1..3 : C.LocalWorkSize[i] # 0 THEN C.LocalWorkSize ELSE NULL,
                    TRUE)

\* C26: after every Update call on a command of a finalized buffer, failed
\* or successful, the grid and block dimensions cached in the command
\* handle are those derived from its cached work dimension, global size and
\* local size, and the command's node in the executable graph has them.
C26_ParamsInSync ==
    (/\ last.op = "Update" /\ last.rc # "CRASH"
     /\ cb[last.b].st = "alive" /\ cb[last.b].HIPGraphExec.live
     /\ cmds[last.cmd].st = "alive") =>
        LET C == cmds[last.cmd]
            kp == DerivedParams(C)
            node == cb[last.b].HIPGraphExec.nodes[C.Node]
        IN  /\ kp.rc = "SUCCESS"
            /\ C.Params.gridDim = kp.BlocksPerGrid
            /\ C.Params.blockDim = kp.ThreadsPerBlock
            /\ node.p.gridDim = C.Params.gridDim
            /\ node.p.blockDim = C.Params.blockDim

\* C27: a Finalize call on a buffer that already has an executable graph
\* leaves that executable graph in place and creates no other, and a
\* destroyed buffer has destroyed every executable graph created for it.
C27_CompiledOnce ==
    [][\A b \in Bufs :
          /\ (last'.op = "Finalize" /\ last'.b = b /\ cb[b].HIPGraphExec.live) =>
                 /\ cb'[b].HIPGraphExec = cb[b].HIPGraphExec
                 /\ cb'[b].execsCreated = cb[b].execsCreated
          /\ cb'[b].st = "dead" => cb'[b].execsDestroyed = cb'[b].execsCreated]_vars

\* C28: after a Create call that returned an error no command-buffer object
\* of the call is allocated, and the call holds no reference on the context
\* or on the device.
C28_FailedCreateLeavesNothing ==
    (last.op = "Create" /\ last.rc # "SUCCESS") =>
        /\ cb[last.b].st = "none"
        /\ ContextRefs(cb[last.b]) = 0
        /\ DeviceRefs(cb[last.b]) = 0

\* C29: after a successful fill of pattern width above 4 and of a size that
\* is a multiple of the width, running the nodes the fill added, in the
\* order of their chain, on zeroed memory leaves byte i of the region of
\* size bytes at the destination equal to pattern byte i mod P, and every
\* byte outside the region zero.
C29_WideFillWritesPattern ==
    [][(/\ last'.op \in FillOps /\ last'.rc = "SUCCESS"
        /\ last'.fill.P > 4 /\ last'.fill.size % last'.fill.P = 0) =>
          LET G1  == cb'[last'.b].HIPGraph
              n0  == Len(cb[last'.b].HIPGraph)
              dst == IF last'.op = "MemBufferFill" THEN last'.fill.offset ELSE 0
              mem == ExecNodes(G1, n0 + 1, Len(G1), ZeroMemory)
          IN  \A a \in DOMAIN mem :
                  mem[a] = IF a \in dst..(dst + last'.fill.size - 1)
                           THEN Pattern(last'.fill.P)[((a - dst) % last'.fill.P) + 1]
                           ELSE 0]_vars

\* A buffer fill of pattern width 8 and size 16 at offset 8 was appended:
\* its nodes write the pattern twice.
C29_Witness ==
    /\ last.op = "MemBufferFill" /\ last.rc = "SUCCESS"
    /\ last.fill.P = 8 /\ last.fill.size = 16 /\ last.fill.offset = 8
    /\ LET G == cb[last.b].HIPGraph
           mem == ExecNodes(G, Len(G) - 4, Len(G), ZeroMemory)
       IN  /\ mem[7] = 0 /\ mem[8] = 1 /\ mem[15] = 8
           /\ mem[16] = 1 /\ mem[23] = 8 /\ mem[24] = 0

\* C30: a successful Update that supplies no argument patch and no geometry
\* field leaves the shared-memory size of the command's node in the
\* executable graph equal to the size its node was appended with.
C30_EmptyUpdateKeepsSharedMem ==
    [][(last'.op = "Update" /\ last'.rc = "SUCCESS" /\ last'.u = NoUpdate) =>
          cb'[last'.b].HIPGraphExec.nodes[cmds[last'.cmd].Node].p.sharedMemBytes
              = cb[last'.b].HIPGraph[cmds[last'.cmd].Node].p.sharedMemBytes]_vars

\* C31: an append-buffer-copy adds a node only if the source offset plus
\* the size and the destination offset plus the size, as true sums, are at
\* most the allocated size of the buffers, for every offset and size of
\* the machine word.
C31_BoundsCheckSound ==
    [][(/\ last'.op = "MemBufferCopy"
        /\ Len(cb'[last'.b].HIPGraph) > Len(cb[last'.b].HIPGraph)) =>
          /\ last'.copy.srcOffset + last'.copy.size <= MemSize
          /\ last'.copy.dstOffset + last'.copy.size <= MemSize]_vars

====
